---------------------------- MODULE Spec2Model ----------------------------
(***************************************************************************)
(* A model of scalyr_agent/scalyr_client.py: the AddEventsRequest builder  *)
(* (size-bounded incremental payload with rollback positions), the process *)
(* wide event timestamp, and ScalyrClientSession (send / close with the    *)
(* 30 second reconnect cooldown and the session counters).                 *)
(*                                                                         *)
(* Python str values are TLA+ strings: len is Len, concatenation is \o and *)
(* a slice is SubSeq.  A cStringIO buffer is its content; its write offset *)
(* always equals the content length in this code (every write is at the    *)
(* end and truncate() moves the offset to the new end), so tell() is Len.  *)
(***************************************************************************)
EXTENDS Integers, Sequences, FiniteSets, TLC

(***************************************************************************)
(* Bounds of the model.                                                    *)
(***************************************************************************)
\* largest wall-clock reading (seconds) of the session specification
MaxTime == 31
\* sends that get past the cooldown guard in one behaviour
MaxSends == 2
\* timestamps drawn from __get_timestamp in one behaviour
MaxStamps == 1
\* Position objects the caller keeps
MaxSaved == 1
\* timestamps issued in one behaviour of the generator specifications
MaxIssued == 3
\* threads registered on a request that was finalized
MaxThreads == 2
\* Position objects the caller keeps in the position specification
MaxPositions == 2
\* fields of a base body handed to AddEventsRequest
MaxFields == 2
\* calls of connect() on a connection in the timeout specification
MaxConnects == 3

(***************************************************************************)
(* Program constants.                                                      *)
(***************************************************************************)
\* scalyr_client.py:163  "current_time - self.__last_connection_close < 30"
Cooldown == 30
\* scalyr_client.py:620  long(time.time() * 1000000000L)
NanosPerSecond == 1000000000

\* scalyr_client.py:315  max_size=1*1024*1024*1024
DefaultMaxSize == 1073741824

\* Python's None where the other values are numbers (no time, no timestamp
\* and no connection id of the model is negative).
None == -1

\* Python's None where the other values are strings (no file)
NoFile == "None"

\* a session for "https://agent.scalyr.com" with a CA bundle, in a Python
\* that has the ssl module
DefaultConfig ==
    [ ok |-> TRUE, host |-> "agent.scalyr.com", port |-> 443, use_ssl |-> TRUE,
      ca_file |-> "ca.pem", has_ssl |-> TRUE ]

(***************************************************************************)
(* json_lib.serialize / json_lib.parse (scalyr_agent/json_lib is not part  *)
(* of the sources at hand): compact JSON, object fields in the order       *)
(* given, strings in double quotes.                                        *)
(***************************************************************************)
RECURSIVE JoinFields(_)
JoinFields(fields) ==
    IF fields = <<>> THEN ""
    ELSE "\"" \o Head(fields).key \o "\":" \o Head(fields).val
         \o (IF Len(fields) > 1 THEN "," ELSE "") \o JoinFields(Tail(fields))

\* a dict, given as a sequence of [key, val] with val already JSON text
SerializeObject(fields) == "{" \o JoinFields(fields) \o "}"

JsonString(s) == "\"" \o s \o "\""

SerializeThread(t) ==
    SerializeObject(<< [key |-> "id", val |-> JsonString(t.id)],
                       [key |-> "name", val |-> JsonString(t.name)] >>)

RECURSIVE JoinThreads(_)
JoinThreads(threads) ==
    IF threads = <<>> THEN ""
    ELSE SerializeThread(Head(threads))
         \o (IF Len(threads) > 1 THEN "," ELSE "") \o JoinThreads(Tail(threads))

\* json_lib.serialize(self.__threads): a list of {"id":..,"name":..}
SerializeThreads(threads) == "[" \o JoinThreads(threads) \o "]"

\* a dict after d[key] = val: the value of a key it has is replaced where
\* it stands, a new key goes to the end
SetItem(d, key, val) ==
    IF \E i \in 1..Len(d) : d[i].key = key
    THEN [ i \in 1..Len(d) |-> IF d[i].key = key THEN [key |-> key, val |-> val]
                                                ELSE d[i] ]
    ELSE Append(d, [key |-> key, val |-> val])

\* the caller's event after event['ts'] = str(timestamp), with every field
\* but ts dropped
StampedEventOnlyTs(event, ts) ==
    << [key |-> "ts", val |-> JsonString(ToString(ts))] >>

\* the caller's event after event['ts'] = str(timestamp)
StampedEvent(event, ts) == SetItem(event, "ts", JsonString(ToString(ts)))

\* the serialized event dict, after event['ts'] = str(timestamp)
SerializeEvent(event, ts) == SerializeObject(StampedEvent(event, ts))


(***************************************************************************)
(* AddEventsRequest.  A builder is a record:                               *)
(*   buffer, buffer_closed   self.__buffer (closed: self.__buffer is None) *)
(*   threads                 self.__threads                                *)
(*   max_size, current_size, events_added, client_time                     *)
(*   body, body_set          self.__body (not set: self.__body is None)    *)
(* Every method is an operator from the builder (and the arguments) to     *)
(* [b |-> the builder afterwards, ret |-> the value returned, or the name  *)
(* of the exception raised].                                               *)
(***************************************************************************)
CharAt(s, location) == SubSeq(s, location + 1, location + 1)

IsSpace(c) == c \in {" ", "\t", "\n", "\r"}

\* __init__: "go back and find the last '}'"
RECURSIVE FindLastBrace(_, _)
FindLastBrace(s, location) ==
    IF location > 0
    THEN IF CharAt(s, location - 1) = "}" THEN location - 1
         ELSE FindLastBrace(s, location - 1)
    ELSE location

\* __init__: "look for the first non-white character"; <<location, last_char>>
RECURSIVE FindNonWhite(_, _, _)
FindNonWhite(s, location, last_char) ==
    IF location > 0
    THEN IF ~IsSpace(CharAt(s, location - 1))
         THEN << location - 1, CharAt(s, location - 1) >>
         ELSE FindNonWhite(s, location - 1, CharAt(s, location - 1))
    ELSE << location, last_char >>

\* __init__: the serialized base body with its closing brace (and a trailing
\* comma) chopped off, followed by the start of the events field
OpenScaffold(base_body) ==
    LET s    == SerializeObject(base_body)
        loc1 == FindLastBrace(s, Len(s))
        nw   == FindNonWhite(s, loc1, "")
        loc2 == IF nw[1] > 0 /\ nw[2] = "," THEN nw[1] - 1 ELSE nw[1]
    IN  SubSeq(s, 1, loc2 + 1) \o ", events: ["

HasKey(base_body, k) == \E i \in 1..Len(base_body) : base_body[i].key = k

\* __get_post_fix: '], threads: THREADS, client_time: TIMESTAMP }' with
\* TIMESTAMP = str(int(client_time)) and THREADS = the serialized threads
GetPostFix(threads, client_time) ==
    "], threads: " \o SerializeThreads(threads)
    \o ", client_time: " \o ToString(client_time) \o " }"

\* __init__: the three assertions
InitAsserts(base_body) ==
    /\ Len(base_body) > 0
    /\ ~HasKey(base_body, "events")
    /\ ~HasKey(base_body, "client_time")

\* __init__ (its assertions hold); time_now is what time.time() returns
NewBuilder(base_body, max_size, time_now) ==
    [ buffer        |-> OpenScaffold(base_body),
      buffer_closed |-> FALSE,
      threads       |-> <<>>,
      max_size      |-> max_size,
      current_size  |-> Len(OpenScaffold(base_body)) + Len(GetPostFix(<<>>, time_now)),
      events_added  |-> 0,
      client_time   |-> time_now,
      body          |-> "",
      body_set      |-> FALSE ]

\* AddEventsRequest(base_body, max_size): the new request, or the
\* AssertionError of one of the three assertions
Construct(base_body, max_size, time_now) ==
    IF InitAsserts(base_body)
    THEN [ b |-> NewBuilder(base_body, max_size, time_now), ret |-> "AddEventsRequest" ]
    ELSE [ b |-> NewBuilder(<<>>, max_size, time_now), ret |-> "AssertionError" ]

\* add_thread
AddThread(b, thread_id, thread_name) ==
    LET original_size == Len(GetPostFix(b.threads, b.client_time))
        appended      == Append(b.threads, [id |-> thread_id, name |-> thread_name])
        added_size    == Len(GetPostFix(appended, b.client_time)) - original_size
    IN  IF b.current_size + added_size > b.max_size
        THEN [ b |-> b, ret |-> "False" ]      \* append, then pop
        ELSE [ b |-> [b EXCEPT !.threads = appended,
                               !.current_size = b.current_size + added_size],
               ret |-> "True" ]

\* add_event without the truncate of the rejected event
AddEventKeepsRejected(b, event, timestamp) ==
    IF b.buffer_closed
    THEN [ b |-> b, ret |-> "AttributeError" ]
    ELSE
    LET start_pos == Len(b.buffer)
        written   == b.buffer \o (IF b.events_added > 0 THEN "," ELSE "")
                              \o SerializeEvent(event, timestamp)
        size      == Len(written) - start_pos
    IN  IF b.current_size + size > b.max_size
        THEN [ b |-> [b EXCEPT !.buffer = written], ret |-> "False" ]
        ELSE [ b |-> [b EXCEPT !.buffer = written,
                               !.current_size = b.current_size + size,
                               !.events_added = b.events_added + 1],
               ret |-> "True" ]

\* add_event that rejects an event reaching the ceiling exactly
AddEventStrict(b, event, timestamp) ==
    IF b.buffer_closed
    THEN [ b |-> b, ret |-> "AttributeError" ]
    ELSE
    LET start_pos == Len(b.buffer)
        written   == b.buffer \o (IF b.events_added > 0 THEN "," ELSE "")
                              \o SerializeEvent(event, timestamp)
        size      == Len(written) - start_pos
    IN  IF b.current_size + size >= b.max_size
        THEN [ b |-> [b EXCEPT !.buffer = SubSeq(written, 1, start_pos)],
               ret |-> "False" ]
        ELSE [ b |-> [b EXCEPT !.buffer = written,
                               !.current_size = b.current_size + size,
                               !.events_added = b.events_added + 1],
               ret |-> "True" ]

\* add_event, once the timestamp is known (given, or from __get_timestamp)
AddEvent(b, event, timestamp) ==
    IF b.buffer_closed
    THEN [ b |-> b, ret |-> "AttributeError" ]   \* self.__buffer is None
    ELSE
    LET start_pos == Len(b.buffer)
        written   == b.buffer \o (IF b.events_added > 0 THEN "," ELSE "")
                              \o SerializeEvent(event, timestamp)
        size      == Len(written) - start_pos
    IN  IF b.current_size + size > b.max_size
        THEN [ b |-> [b EXCEPT !.buffer = SubSeq(written, 1, start_pos)],
               ret |-> "False" ]
        ELSE [ b |-> [b EXCEPT !.buffer = written,
                               !.current_size = b.current_size + size,
                               !.events_added = b.events_added + 1],
               ret |-> "True" ]

\* set_client_time that only records the time, also on a finalized request
SetClientTimeKeepsBody(b, current_time) == [b EXCEPT !.client_time = current_time]

\* set_client_time; the seek of cStringIO stops at the start of the content
SetClientTime(b, current_time) ==
    IF b.body_set
    THEN LET old_post_fix == GetPostFix(b.threads, b.client_time)
             new_post_fix == GetPostFix(b.threads, current_time)
             keep == IF Len(b.body) > Len(old_post_fix)
                     THEN Len(b.body) - Len(old_post_fix) ELSE 0
         IN  [b EXCEPT !.body = SubSeq(b.body, 1, keep) \o new_post_fix,
                       !.client_time = current_time]
    ELSE [b EXCEPT !.client_time = current_time]

\* get_payload that writes the closing fields on every call
GetPayloadAppendsAgain(b) ==
    IF b.body_set
    THEN LET payload == b.body \o GetPostFix(b.threads, b.client_time)
         IN  [ b |-> [b EXCEPT !.body = payload], ret |-> payload, raised |-> FALSE ]
    ELSE IF b.buffer_closed
    THEN [ b |-> b, ret |-> "AttributeError", raised |-> TRUE ]
    ELSE LET payload == b.buffer \o GetPostFix(b.threads, b.client_time)
         IN  [ b |-> [b EXCEPT !.buffer = "", !.buffer_closed = TRUE,
                               !.body = payload, !.body_set = TRUE],
               ret |-> payload, raised |-> FALSE ]

\* get_payload; ret is the payload
GetPayload(b) ==
    IF b.body_set
    THEN [ b |-> b, ret |-> b.body, raised |-> FALSE ]
    ELSE IF b.buffer_closed
    THEN [ b |-> b, ret |-> "AttributeError", raised |-> TRUE ]
    ELSE LET payload == b.buffer \o GetPostFix(b.threads, b.client_time)
         IN  [ b |-> [b EXCEPT !.buffer = "", !.buffer_closed = TRUE,
                               !.body = payload, !.body_set = TRUE],
               ret |-> payload, raised |-> FALSE ]

\* close
CloseRequest(b) == [b EXCEPT !.body = "", !.body_set = FALSE]

\* position: Position(current_size, events_added, buffer.tell(), len(threads))
Position(b) ==
    [ current_size |-> b.current_size,
      events_added |-> b.events_added,
      buffer_size  |-> Len(b.buffer),
      thread_count |-> Len(b.threads) ]

\* cStringIO truncate(size): cuts only when the content is longer
Truncate(s, size) == IF Len(s) > size THEN SubSeq(s, 1, size) ELSE s

\* set_position without the assertion on the thread count
SetPositionUnchecked(b, position) ==
    LET b1 == [b EXCEPT !.current_size = position.current_size,
                        !.events_added = position.events_added]
        b2 == [b1 EXCEPT !.buffer = Truncate(b.buffer, position.buffer_size)]
        n  == IF position.thread_count <= Len(b.threads)
              THEN position.thread_count ELSE Len(b.threads)
    IN  IF b.buffer_closed
        THEN [ b |-> b1, ret |-> "AttributeError" ]
        ELSE [ b |-> [b2 EXCEPT !.threads = SubSeq(b.threads, 1, n)],
               ret |-> "None" ]

\* set_position without the slice of the thread list
SetPositionKeepsThreads(b, position) ==
    LET b1 == [b EXCEPT !.current_size = position.current_size,
                        !.events_added = position.events_added]
        b2 == [b1 EXCEPT !.buffer = Truncate(b.buffer, position.buffer_size)]
    IN  IF b.buffer_closed
        THEN [ b |-> b1, ret |-> "AttributeError" ]
        ELSE IF ~(position.thread_count <= Len(b.threads))
        THEN [ b |-> b2, ret |-> "AssertionError" ]
        ELSE [ b |-> b2, ret |-> "None" ]

\* set_position: the two assignments, the truncate, the assertion, the slice
SetPosition(b, position) ==
    LET b1 == [b EXCEPT !.current_size = position.current_size,
                        !.events_added = position.events_added]
        b2 == [b1 EXCEPT !.buffer = Truncate(b.buffer, position.buffer_size)]
    IN  IF b.buffer_closed
        THEN [ b |-> b1, ret |-> "AttributeError" ]
        ELSE IF ~(position.thread_count <= Len(b.threads))
        THEN [ b |-> b2, ret |-> "AssertionError" ]
        ELSE [ b |-> [b2 EXCEPT !.threads = SubSeq(b.threads, 1, position.thread_count)],
               ret |-> "None" ]

\* total_events
TotalEvents(b) == b.events_added

(***************************************************************************)
(* The process-wide event timestamp.                                       *)
(***************************************************************************)
\* __get_timestamp with < for <= in its comparison
GetTimestampNoBump(last, time_now) ==
    LET base_timestamp == time_now * NanosPerSecond
    IN  IF last # None /\ base_timestamp < last THEN last + 1
        ELSE base_timestamp

\* __get_timestamp: the timestamp returned, which is also the new value of
\* __last_time_stamp__; time_now is what time.time() returns
GetTimestamp(last, time_now) ==
    LET base_timestamp == time_now * NanosPerSecond
    IN  IF last # None /\ base_timestamp <= last THEN last + 1
        ELSE base_timestamp

(***************************************************************************)
(* ScalyrClientSession.  A session is a record of the fields of __init__;  *)
(* connection is the id of the connection instance held (None: no          *)
(* connection).  The network side is the record net: connect_calls counts  *)
(* the connection instances on which connect() was called (the n-th one    *)
(* has id n), request_calls the requests written, request_conn the id of   *)
(* the instance the last request was written on, closed the ids of the     *)
(* instances that were closed.                                             *)
(***************************************************************************)
NewSession ==
    [ connection                    |-> None,
      last_success                  |-> None,
      last_connection_close         |-> None,
      total_requests_sent           |-> 0,
      total_requests_failed         |-> 0,
      total_request_bytes_sent      |-> 0,
      total_response_bytes_received |-> 0,
      total_request_latency_secs    |-> 0,
      total_connections_created     |-> 0 ]

NewNet == [ connect_calls |-> 0, request_calls |-> 0, request_conn |-> None,
            closed |-> {} ]

\* the exceptions connect() raises in the model, all of them socket.error,
\* socket.herror or socket.gaierror (ssl.SSLError and socket.timeout are
\* subclasses of socket.error): the five branches of the handler
ConnectErrors == {"SSLError", "errno61", "errno8", "errno", "noerrno"}
ConnectOutcomes == {"connected"} \cup ConnectErrors

\* request() / getresponse().read(): done, or an exception with or without
\* an errno attribute
RequestErrors == {"error_errno", "error"}
RequestOutcomes == {"ok"} \cup RequestErrors

\* handlers that let an exception without an errno through
CaughtOnConnectWithErrno(outcome) == outcome \in ConnectErrors \ {"noerrno"}

CaughtOnRequestWithErrno(outcome) == outcome = "error_errno"

\* except (socket.error, socket.herror, socket.gaierror)
CaughtOnConnect(outcome) == outcome \in ConnectErrors

\* except Exception
CaughtOnRequest(outcome) == outcome \in RequestErrors

\* json_lib.parse of a response body and the look-up of 'status': the body
\* parses when it is a JSON object; the objects of the model are "{}" and
\* {"status":"<value>"}
StatusPrefix == "{\"status\":\""
StatusSuffix == "\"}"

Parses(response) ==
    /\ Len(response) >= 2
    /\ SubSeq(response, 1, 1) = "{"
    /\ SubSeq(response, Len(response), Len(response)) = "}"

HasStatus(response) ==
    /\ Len(response) >= Len(StatusPrefix) + Len(StatusSuffix)
    /\ SubSeq(response, 1, Len(StatusPrefix)) = StatusPrefix
    /\ SubSeq(response, Len(response) - Len(StatusSuffix) + 1, Len(response))
           = StatusSuffix

StatusValue(response) ==
    SubSeq(response, Len(StatusPrefix) + 1, Len(response) - Len(StatusSuffix))

\* the cooldown guard with a window one second short
CooldownActiveShort(s, current_time) ==
    /\ s.last_connection_close # None
    /\ current_time - s.last_connection_close < Cooldown - 1

\* the cooldown guard with the thirtieth second inside the window
CooldownActiveInclusive(s, current_time) ==
    /\ s.last_connection_close # None
    /\ current_time - s.last_connection_close <= Cooldown

\* the cooldown guard of send
CooldownActive(s, current_time) ==
    /\ s.last_connection_close # None
    /\ current_time - s.last_connection_close < Cooldown

\* a close that keeps the closed connection in the session
CloseSessionKeepsConnection(s, net, current_time, time_now) ==
    IF s.connection # None
    THEN [ s   |-> [s EXCEPT !.last_connection_close =
                                 IF current_time = None THEN time_now
                                 ELSE current_time],
           net |-> [net EXCEPT !.closed = net.closed \cup {s.connection}] ]
    ELSE [ s |-> s, net |-> net ]

\* a close that records the time also when there is no connection
CloseSessionAlwaysStamps(s, net, current_time, time_now) ==
    [ s   |-> [s EXCEPT !.connection = None,
                        !.last_connection_close =
                            IF current_time = None THEN time_now ELSE current_time],
      net |-> IF s.connection # None
              THEN [net EXCEPT !.closed = net.closed \cup {s.connection}]
              ELSE net ]

\* close(current_time); time_now is what time.time() returns
CloseSession(s, net, current_time, time_now) ==
    IF s.connection # None
    THEN [ s   |-> [s EXCEPT !.connection = None,
                             !.last_connection_close =
                                 IF current_time = None THEN time_now
                                 ELSE current_time],
           net |-> [net EXCEPT !.closed = net.closed \cup {s.connection}] ]
    ELSE [ s |-> s, net |-> net ]

\* a finally block that closes the connection after every send
FinallyAlwaysClose(s, net, current_time, end_time, was_success, bytes_received) ==
    LET s1 == [s EXCEPT !.total_request_latency_secs =
                            s.total_request_latency_secs + (end_time - current_time)]
        s2 == IF ~was_success
              THEN [s1 EXCEPT !.total_requests_failed = s1.total_requests_failed + 1]
              ELSE s1
        c  == CloseSession(s2, net, current_time, end_time)
    IN  [ s   |-> [c.s EXCEPT !.total_response_bytes_received =
                                  c.s.total_response_bytes_received + bytes_received],
          net |-> c.net ]

\* a finally block that closes the connection without counting the failure
FinallyForgetsFailure(s, net, current_time, end_time, was_success, bytes_received) ==
    LET s1 == [s EXCEPT !.total_request_latency_secs =
                            s.total_request_latency_secs + (end_time - current_time)]
        c  == IF ~was_success THEN CloseSession(s1, net, current_time, end_time)
              ELSE [ s |-> s1, net |-> net ]
    IN  [ s   |-> [c.s EXCEPT !.total_response_bytes_received =
                                  c.s.total_response_bytes_received + bytes_received],
          net |-> c.net ]

\* a finally block that counts the bytes received of successful sends only
FinallyDropsBytesOnFailure(s, net, current_time, end_time, was_success, bytes_received) ==
    LET s1 == [s EXCEPT !.total_request_latency_secs =
                            s.total_request_latency_secs + (end_time - current_time)]
        s2 == IF ~was_success
              THEN [s1 EXCEPT !.total_requests_failed = s1.total_requests_failed + 1]
              ELSE s1
        c  == IF ~was_success THEN CloseSession(s2, net, current_time, end_time)
              ELSE [ s |-> s2, net |-> net ]
    IN  [ s   |-> IF was_success
                  THEN [c.s EXCEPT !.total_response_bytes_received =
                                       c.s.total_response_bytes_received + bytes_received]
                  ELSE c.s,
          net |-> c.net ]

\* a finally block that closes with the clock reading of the close instead
\* of the reading taken on entry to send
FinallyClosesAtEndTime(s, net, current_time, end_time, was_success, bytes_received) ==
    LET s1 == [s EXCEPT !.total_request_latency_secs =
                            s.total_request_latency_secs + (end_time - current_time)]
        s2 == IF ~was_success
              THEN [s1 EXCEPT !.total_requests_failed = s1.total_requests_failed + 1]
              ELSE s1
        c  == IF ~was_success THEN CloseSession(s2, net, end_time, end_time)
              ELSE [ s |-> s2, net |-> net ]
    IN  [ s   |-> [c.s EXCEPT !.total_response_bytes_received =
                                  c.s.total_response_bytes_received + bytes_received],
          net |-> c.net ]

\* the finally block of send; end_time is what its time.time() returns
Finally(s, net, current_time, end_time, was_success, bytes_received) ==
    LET s1 == [s EXCEPT !.total_request_latency_secs =
                            s.total_request_latency_secs + (end_time - current_time)]
        s2 == IF ~was_success
              THEN [s1 EXCEPT !.total_requests_failed = s1.total_requests_failed + 1]
              ELSE s1
        c  == IF ~was_success THEN CloseSession(s2, net, current_time, end_time)
              ELSE [ s |-> s2, net |-> net ]
    IN  [ s   |-> [c.s EXCEPT !.total_response_bytes_received =
                                  c.s.total_response_bytes_received + bytes_received],
          net |-> c.net ]

\* what send returns: (status, bytes sent, response), or the exception that
\* leaves it
Returned(status, bytes_sent, response) ==
    [ status |-> status, bytes_sent |-> bytes_sent, response |-> response,
      raised |-> FALSE ]

Raised(exception) ==
    [ status |-> exception, bytes_sent |-> 0, response |-> "", raised |-> TRUE ]

\* a classification without the test for an empty body
ClassifyWithoutEmptyCheck(response) ==
    IF ~Parses(response)
    THEN [ status |-> "parseResponseFailed", parsed |-> FALSE, was_success |-> FALSE ]
    ELSE IF HasStatus(response)
    THEN [ status |-> StatusValue(response), parsed |-> TRUE,
           was_success |-> StatusValue(response) = "success" ]
    ELSE [ status |-> "unknownError", parsed |-> TRUE, was_success |-> FALSE ]

\* send, once the response body is read: the status returned, whether the
\* body parsed (self.__last_success is then set) and was_success
Classify(response) ==
    IF Len(response) = 0
    THEN [ status |-> "emptyResponse", parsed |-> FALSE, was_success |-> FALSE ]
    ELSE IF ~Parses(response)
    THEN [ status |-> "parseResponseFailed", parsed |-> FALSE, was_success |-> FALSE ]
    ELSE IF HasStatus(response)
    THEN [ status |-> StatusValue(response), parsed |-> TRUE,
           was_success |-> StatusValue(response) = "success" ]
    ELSE [ status |-> "unknownError", parsed |-> TRUE, was_success |-> FALSE ]

\* send leaves through its finally block with the result ret
Leave(s, net, b, current_time, end_time, was_success, bytes_received, ret) ==
    LET f == Finally(s, net, current_time, end_time, was_success, bytes_received)
    IN  [ s |-> f.s, net |-> f.net, b |-> b, ret |-> ret ]

\* send(add_events_request).  current_time and end_time are what the two
\* calls of time.time() return; connect_outcome, request_outcome and
\* response are what the network does
Send(s, net, b, current_time, connect_outcome, request_outcome, response, end_time) ==
    IF CooldownActive(s, current_time)
    THEN [ s |-> s, net |-> net, b |-> b,
           ret |-> Returned("client/connectionClosed", 0, "") ]
    ELSE
    LET s1      == [s EXCEPT !.total_requests_sent = s.total_requests_sent + 1]
        opening == s1.connection = None
        id      == net.connect_calls + 1
        \* self.__connection is assigned before connect() is called on it
        s2      == IF opening THEN [s1 EXCEPT !.connection = id] ELSE s1
        net2    == IF opening THEN [net EXCEPT !.connect_calls = id] ELSE net
    IN
    IF opening /\ connect_outcome # "connected"
    THEN IF CaughtOnConnect(connect_outcome)
         THEN Leave(s2, net2, b, current_time, end_time, FALSE, 0,
                    Returned("client/connectionFailed", 0, ""))
         ELSE Leave(s2, net2, b, current_time, end_time, FALSE, 0,
                    Raised(connect_outcome))
    ELSE
    LET s3 == IF opening
              THEN [s2 EXCEPT !.total_connections_created =
                                  s2.total_connections_created + 1]
              ELSE s2
        b1 == SetClientTime(b, current_time)
        p  == GetPayload(b1)
    IN
    IF p.raised
    THEN Leave(s3, net2, p.b, current_time, end_time, FALSE, 0, Raised(p.ret))
    ELSE
    LET body_str == p.ret
        s4   == [s3 EXCEPT !.total_request_bytes_sent =
                               s3.total_request_bytes_sent + Len(body_str)]
        net3 == [net2 EXCEPT !.request_calls = net2.request_calls + 1,
                             !.request_conn = s4.connection]
    IN
    IF request_outcome # "ok"
    THEN IF CaughtOnRequest(request_outcome)
         THEN Leave(s4, net3, p.b, current_time, end_time, FALSE, 0,
                    Returned("requestFailed", Len(body_str), ""))
         ELSE Leave(s4, net3, p.b, current_time, end_time, FALSE, 0,
                    Raised(request_outcome))
    ELSE
    LET c  == Classify(response)
        s5 == IF c.parsed THEN [s4 EXCEPT !.last_success = current_time] ELSE s4
    IN  Leave(s5, net3, p.b, current_time, end_time, c.was_success, Len(response),
              Returned(c.status, Len(body_str), response))

\* add_events_request: the base body handed to AddEventsRequest
ApiKey == "k"
SessionId == "s"
BaseBody ==
    << [key |-> "token",   val |-> JsonString(ApiKey)],
       [key |-> "session", val |-> JsonString(SessionId)],
       [key |-> "threads", val |-> "[]"] >>

\* add_events_request(max_size=max_size), no session_info
AddEventsRequest(max_size, time_now) == NewBuilder(BaseBody, max_size, time_now)

(***************************************************************************)
(* ScalyrClientSession.__init__: the server address.                       *)
(***************************************************************************)
\* str.lower() on the letters of the addresses of the model
LowerOf == [ H |-> "h", T |-> "t", P |-> "p", S |-> "s" ]

RECURSIVE Lower(_)
Lower(s) ==
    IF s = "" THEN ""
    ELSE LET c == SubSeq(s, 1, 1)
         IN  (IF c \in DOMAIN LowerOf THEN LowerOf[c] ELSE c)
             \o Lower(SubSeq(s, 2, Len(s)))

StartsWith(s, prefix) ==
    Len(s) >= Len(prefix) /\ SubSeq(s, 1, Len(prefix)) = prefix

Digits == {"0", "1", "2", "3", "4", "5", "6", "7", "8", "9"}

\* \d+
IsDigits(s) ==
    Len(s) > 0 /\ \A i \in 1..Len(s) : SubSeq(s, i, i) \in Digits

\* int(s) for a string of digits
RECURSIVE ParseInt(_)
ParseInt(s) ==
    IF s = "" THEN 0
    ELSE LET d == SubSeq(s, Len(s), Len(s))
         IN  10 * ParseInt(SubSeq(s, 1, Len(s) - 1))
             + (CHOOSE n \in 0..9 : ToString(n) = d)

\* the length of the longest prefix of s without a colon: what the greedy
\* [^:]* takes
RECURSIVE UpToColon(_, _)
UpToColon(s, n) ==
    IF n < Len(s) /\ SubSeq(s, n + 1, n + 1) # ":" THEN UpToColon(s, n + 1)
    ELSE n

\* ([^:]*)(:\d+|)$ on what follows group 1: [^:]* cannot give back
\* characters to a group 3 that starts with a colon, so the match is the
\* longest prefix without a colon followed by nothing or by :\d+
MatchHostPort(rest) ==
    LET n     == UpToColon(rest, 0)
        host  == SubSeq(rest, 1, n)
        port  == SubSeq(rest, n + 1, Len(rest))
    IN  [ matched |-> port = "" \/ IsDigits(SubSeq(port, 2, Len(port))),
          host    |-> host,
          port    |-> port ]

\* re.match('^(http://|https://|)([^:]*)(:\d+|)$', server.lower()): the
\* alternatives of group 1 are tried in their order, the empty one last
MatchServer(server) ==
    LET lowered == Lower(server)
        tries   == << "http://", "https://", "" >>
        fits(i) == /\ StartsWith(lowered, tries[i])
                   /\ MatchHostPort(SubSeq(lowered, Len(tries[i]) + 1,
                                            Len(lowered))).matched
    IN  IF \E i \in 1..3 : fits(i)
        THEN LET i == CHOOSE i \in 1..3 : fits(i) /\ \A j \in 1..(i - 1) : ~fits(j)
                 m == MatchHostPort(SubSeq(lowered, Len(tries[i]) + 1, Len(lowered)))
             IN  [ matched |-> TRUE, scheme |-> tries[i], host |-> m.host,
                   port |-> m.port ]
        ELSE [ matched |-> FALSE, scheme |-> "", host |-> "", port |-> "" ]

\* __init__, lines 75-94: the fields derived from the address, or the
\* Exception of line 78 (ok is then FALSE)
ParseServer(server, ca_file, has_ssl) ==
    LET parsed_server == MatchServer(server)
        use_ssl       == parsed_server.scheme = "https://"
    IN  IF ~parsed_server.matched
        THEN [ ok |-> FALSE, host |-> "", port |-> 0, use_ssl |-> FALSE,
               ca_file |-> ca_file, has_ssl |-> has_ssl ]
        ELSE [ ok      |-> TRUE,
               host    |-> parsed_server.host,
               port    |-> IF parsed_server.port # ""
                           THEN ParseInt(SubSeq(parsed_server.port, 2,
                                                Len(parsed_server.port)))
                           ELSE IF use_ssl THEN 443 ELSE 80,
               use_ssl |-> use_ssl,
               ca_file |-> ca_file,
               has_ssl |-> has_ssl ]

\* a connect that never checks the server's certificate
ConnectNeverVerifies(cfg, connect_outcome, cert) == connect_outcome

\* self.__connection.connect() on a new connection of a session with the
\* fields cfg: connect_outcome is what opening the socket does and cert
\* whether the server's certificate verifies against the CA bundle.  The
\* connection gets ca_file only with the ssl module (lines 191-194); with a
\* ca_file the socket is wrapped with cert_reqs=ssl.CERT_REQUIRED, which
\* raises ssl.SSLError for a certificate that does not verify (line 744),
\* without one with ssl.CERT_NONE (line 746); without the ssl module
\* httplib.HTTPSConnection.connect verifies nothing (line 728)
Connect(cfg, connect_outcome, cert) ==
    LET ca_file == IF cfg.has_ssl THEN cfg.ca_file ELSE NoFile
    IN  IF /\ cfg.use_ssl
           /\ cfg.has_ssl
           /\ connect_outcome = "connected"
           /\ ca_file # NoFile
           /\ cert = "untrusted"
        THEN "SSLError"
        ELSE connect_outcome

\* a ping that sends a request holding one event
PingWithEvent(s, net, current_time, connect_outcome, request_outcome, response, end_time) ==
    LET b == AddEvent(AddEventsRequest(DefaultMaxSize, current_time),
                      << [key |-> "msg", val |-> JsonString("ping")] >>, 0).b
        r == Send(s, net, b, current_time, connect_outcome, request_outcome,
                  response, end_time)
    IN  [ s |-> r.s, net |-> r.net,
          ret |-> [ status |-> r.ret.status, raised |-> r.ret.raised ] ]

\* ping: self.send(self.add_events_request())[0]; the request is built at
\* the clock reading send then starts with
Ping(s, net, current_time, connect_outcome, request_outcome, response, end_time) ==
    LET r == Send(s, net, AddEventsRequest(DefaultMaxSize, current_time),
                  current_time, connect_outcome, request_outcome, response, end_time)
    IN  [ s |-> r.s, net |-> r.net,
          ret |-> [ status |-> r.ret.status, raised |-> r.ret.raised ] ]

(***************************************************************************)
(* The state.                                                              *)
(*   session, net     the ScalyrClientSession and the network side         *)
(*   req              the AddEventsRequest the caller is working with      *)
(*   last_time_stamp  the module global __last_time_stamp__                *)
(*   now              the wall clock, what time.time() returns             *)
(*   saved            the Position objects the caller keeps, each with the *)
(*                    builder as it was when position() was called and     *)
(*                    whether only appends were made since                 *)
(*   calls            how many timestamps were drawn, whether an add_event *)
(*                    or add_thread on req was accepted, whether close()   *)
(*                    was called on req, and the events the caller counts  *)
(*                    as being in req: those whose add_event returned      *)
(*                    True, less those appended after a position was taken *)
(*                    that the caller went back to                         *)
(*   regressed        whether the wall clock ever stepped backward         *)
(*   last             the last call made: its name, arguments and result   *)
(*   sends            how many sends returned "success", and the clock     *)
(*                    reading at which the last send that could not        *)
(*                    connect returned (None: the last send past the guard *)
(*                    did connect)                                         *)
(*   issued           the timestamps __get_timestamp returned, in order    *)
(*   pc               for each thread calling __get_timestamp, the line it *)
(*                    is at ("idle": not in the function)                  *)
(*   base_timestamp   for each such thread, its local base_timestamp       *)
(*   config           the fields __init__ derives from its arguments (host, *)
(*                    port, use_ssl, ca_file; ok: __init__ returned) and   *)
(*                    has_ssl, the module global __has_ssl__               *)
(*   default_timeout  the socket module's default timeout                  *)
(*                    (socket.getdefaulttimeout())                         *)
(*   old_timeout      for each thread inside                               *)
(*                    HTTPSConnectionWithTimeoutAndVerification.connect,   *)
(*                    its local old_timeout                                *)
(***************************************************************************)
VARIABLES session, net, req, last_time_stamp, now, saved, calls, regressed, last,
          sends, issued, pc, base_timestamp, config, default_timeout, old_timeout

\* what the session is built from and runs in, and the state of the socket
\* module
environment == << config, default_timeout, old_timeout >>

vars == << session, net, req, last_time_stamp, now, saved, calls, regressed, last,
           sends, issued, pc, base_timestamp, config, default_timeout, old_timeout >>

\* the clock readings of the session specification: around the multiples of
\* the cooldown
ClockReadings == { t \in 0..MaxTime : t % Cooldown \in {0, 1, Cooldown - 1} }

\* how long a send takes: no time, the cooldown; or the clock is set back by
\* a second while it runs
SendDurations == {0, Cooldown, -1}

\* the response bodies the server sends
Responses ==
    { "", "<html>", "{}", StatusPrefix \o "success" \o StatusSuffix,
      StatusPrefix \o "error/client/badParam" \o StatusSuffix,
      StatusPrefix \o "error/server" \o StatusSuffix }

\* the events, threads and times the caller passes
Events == { << [key |-> "msg", val |-> JsonString("a")] >>,
            << [key |-> "msg", val |-> JsonString("hello")] >> }
ExplicitTimestamps == {5}
Threads == { [id |-> "1", name |-> "n"], [id |-> "22", name |-> "main"] }
ClientTimes == {10}

\* a new request's size with the clock at 0, and the ceilings tried: room
\* for exactly one minimal event (20 bytes), and for exactly three (20, and
\* 21 for each further one with its comma) or a thread and some events
FreshSize == AddEventsRequest(0, 0).current_size
MaxSizes == { FreshSize + 20, FreshSize + 62 }

\* the clock readings of the builder specification: two events stamped in
\* the same second, or a second apart in either order
StampReadings == {0, 1}

NoCalls == [ stamps |-> 0, accepted |-> FALSE, closed |-> FALSE, events |-> << >> ]

NoSends == [ successes |-> 0, connect_failed_at |-> None, failed_start |-> None ]

\* the threads that call add_event, each on a request of its own
Callers == {1, 2}

Init ==
    /\ session = NewSession
    /\ net = NewNet
    /\ now = 0
    /\ req = AddEventsRequest(DefaultMaxSize, 0)
    /\ last_time_stamp = None
    /\ saved = << >>
    /\ calls = NoCalls
    /\ regressed = FALSE
    /\ last = [ op |-> "init" ]
    /\ sends = NoSends
    /\ issued = << >>
    /\ pc = [ c \in Callers |-> "idle" ]
    /\ base_timestamp = [ c \in Callers |-> None ]
    /\ config = DefaultConfig
    /\ default_timeout = None
    /\ old_timeout = [ c \in Callers |-> None ]

BuilderInit ==
    /\ session = NewSession
    /\ net = NewNet
    /\ now = 0
    /\ \E m \in MaxSizes : req = AddEventsRequest(m, 0)
    /\ last_time_stamp = None
    /\ saved = << >>
    /\ calls = NoCalls
    /\ regressed = FALSE
    /\ last = [ op |-> "init" ]
    /\ sends = NoSends
    /\ issued = << >>
    /\ pc = [ c \in Callers |-> "idle" ]
    /\ base_timestamp = [ c \in Callers |-> None ]
    /\ config = DefaultConfig
    /\ default_timeout = None
    /\ old_timeout = [ c \in Callers |-> None ]

(***************************************************************************)
(* The session's operations.                                               *)
(***************************************************************************)
\* what the network does during one send: connect() fails, or request() /
\* getresponse().read() fails, or the response body is read
NetworkBehaviours ==
    { [connect |-> e, request |-> "ok", response |-> ""] : e \in ConnectErrors }
    \cup { [connect |-> "connected", request |-> e, response |-> ""] :
           e \in RequestErrors }
    \cup { [connect |-> "connected", request |-> "ok", response |-> r] :
           r \in Responses }

\* a send that does not reach the network
NoNetwork == [connect |-> "none", request |-> "none", response |-> ""]

\* the record of the sends made, after one that was entered at the clock
\* reading now and returned ret at the clock reading end_time: the sends
\* that returned success, when the last send past the guard returned if it
\* failed to connect, and when it started if it did not return success
SendsAfter(ret, end_time) ==
    IF ret.status = "client/connectionClosed" /\ ~ret.raised
    THEN sends
    ELSE [ successes |-> sends.successes
                           + (IF ret.status = "success" /\ ~ret.raised THEN 1 ELSE 0),
           connect_failed_at |-> IF ret.status = "client/connectionFailed"
                                 THEN end_time ELSE None,
           failed_start |-> IF ret.status = "success" /\ ~ret.raised
                            THEN None ELSE now ]

\* session.send(req)
DoSend ==
    /\ CooldownActive(session, now) \/ session.total_requests_sent < MaxSends
    /\ \E nb \in NetworkBehaviours, end_time \in ClockReadings :
          /\ end_time - now \in SendDurations
          /\ LET r == Send(session, net, req, now, nb.connect, nb.request,
                           nb.response, end_time)
             IN  /\ session' = r.s
                 /\ net' = r.net
                 /\ req' = r.b
                 /\ now' = IF CooldownActive(session, now) THEN now ELSE end_time
                 /\ regressed' = (regressed \/ now' < now)
                 /\ last' = [ op |-> "send", ret |-> r.ret, current_time |-> now,
                              nb |-> IF CooldownActive(session, now)
                                     THEN NoNetwork ELSE nb ]
                 /\ sends' = SendsAfter(r.ret, now')
    /\ UNCHANGED << last_time_stamp, saved, calls, issued, pc, base_timestamp,
                 environment >>

\* session.close()
DoClose ==
    /\ LET c == CloseSession(session, net, None, now)
       IN  session' = c.s /\ net' = c.net
    /\ last' = [ op |-> "close" ]
    /\ UNCHANGED << req, last_time_stamp, now, saved, calls, regressed,
                 sends, issued, pc, base_timestamp,
                 environment >>

\* time passes
Tick ==
    /\ \E t \in ClockReadings : t > now /\ now' = t
    /\ last' = [ op |-> "tick" ]
    /\ UNCHANGED << session, net, req, last_time_stamp, saved, calls, regressed,
                 sends, issued, pc, base_timestamp,
                 environment >>

\* the wall clock is set back
ClockStepBack ==
    /\ \E t \in ClockReadings : t < now /\ now' = t
    /\ regressed' = TRUE
    /\ last' = [ op |-> "clock_back" ]
    /\ UNCHANGED << session, net, req, last_time_stamp, saved, calls,
                 sends, issued, pc, base_timestamp,
                 environment >>

Next == DoSend \/ DoClose \/ Tick \/ ClockStepBack

\* what the network does during one send of the liveness specification:
\* connect() is refused, the request fails, or the server answers with
\* success or with an error
LiveBehaviours ==
    { [connect |-> "errno61", request |-> "ok", response |-> ""],
      [connect |-> "connected", request |-> "error", response |-> ""],
      [connect |-> "connected", request |-> "ok",
       response |-> StatusPrefix \o "success" \o StatusSuffix],
      [connect |-> "connected", request |-> "ok",
       response |-> StatusPrefix \o "error/server" \o StatusSuffix] }

\* session.send(req) during which the clock is not set back: the send takes
\* no time or the cooldown
DoSendForward ==
    /\ CooldownActive(session, now) \/ session.total_requests_sent < MaxSends
    /\ \E nb \in LiveBehaviours, end_time \in ClockReadings :
          /\ end_time - now \in {0, Cooldown}
          /\ LET r == Send(session, net, req, now, nb.connect, nb.request,
                           nb.response, end_time)
             IN  /\ session' = r.s
                 /\ net' = r.net
                 /\ req' = r.b
                 /\ now' = IF CooldownActive(session, now) THEN now ELSE end_time
                 /\ last' = [ op |-> "send", ret |-> r.ret, current_time |-> now,
                              nb |-> IF CooldownActive(session, now)
                                     THEN NoNetwork ELSE nb ]
                 /\ sends' = SendsAfter(r.ret, now')
    /\ UNCHANGED << last_time_stamp, saved, calls, regressed, issued, pc,
                 base_timestamp, environment >>

\* The liveness specification: a caller that keeps invoking send (and may
\* call close) while the clock keeps advancing and is never set back.
LiveNext == DoSendForward \/ DoClose \/ Tick

LiveSpec == Init /\ [][LiveNext]_vars /\ WF_vars(DoSendForward) /\ WF_vars(Tick)

\* the server's certificate, as seen against the session's CA bundle
Certificates == {"trusted", "untrusted"}

\* session.send(req) on a session built with the fields config
DoTlsSend ==
    /\ CooldownActive(session, now) \/ session.total_requests_sent < MaxSends
    /\ \E nb \in NetworkBehaviours, cert \in Certificates, end_time \in ClockReadings :
          /\ end_time - now \in SendDurations
          /\ LET r == Send(session, net, req, now, Connect(config, nb.connect, cert),
                           nb.request, nb.response, end_time)
             IN  /\ session' = r.s
                 /\ net' = r.net
                 /\ req' = r.b
                 /\ now' = IF CooldownActive(session, now) THEN now ELSE end_time
                 /\ regressed' = (regressed \/ now' < now)
                 /\ last' = [ op |-> "send", ret |-> r.ret, current_time |-> now,
                              nb |-> IF CooldownActive(session, now)
                                     THEN NoNetwork ELSE nb,
                              cert |-> cert ]
                 /\ sends' = SendsAfter(r.ret, now')
    /\ UNCHANGED << last_time_stamp, saved, calls, issued, pc, base_timestamp,
                 environment >>

\* sessions for http and https addresses, with and without a CA bundle, in
\* a Python with and without the ssl module
TlsInit ==
    /\ session = NewSession
    /\ net = NewNet
    /\ now = 0
    /\ req = AddEventsRequest(DefaultMaxSize, 0)
    /\ last_time_stamp = None
    /\ saved = << >>
    /\ calls = NoCalls
    /\ regressed = FALSE
    /\ last = [ op |-> "init" ]
    /\ sends = NoSends
    /\ issued = << >>
    /\ pc = [ c \in Callers |-> "idle" ]
    /\ base_timestamp = [ c \in Callers |-> None ]
    /\ \E use_ssl \in BOOLEAN, ca_file \in {NoFile, "ca.pem"}, has_ssl \in BOOLEAN :
          config = [DefaultConfig EXCEPT !.use_ssl = use_ssl,
                                         !.port = IF use_ssl THEN 443 ELSE 80,
                                         !.ca_file = ca_file,
                                         !.has_ssl = has_ssl]
    /\ default_timeout = None
    /\ old_timeout = [ c \in Callers |-> None ]

TlsNext == DoTlsSend \/ DoClose

TlsSpec == TlsInit /\ [][TlsNext]_vars

\* the addresses a session is built with: with and without a scheme, a
\* host and a port, well-formed or not
Schemes == {"", "http://", "https://", "HTTPS://", "ftp://"}
Hosts == {"", "h", "a.b", "localhost"}
Ports == {"", ":80", ":8080", ":", ":8x", ":80:1"}
Servers == { scheme \o host \o port : scheme \in Schemes, host \in Hosts, port \in Ports }

\* session = ScalyrClientSession(server, ...); the caller keeps the session
\* it had when the constructor raises
DoNewSession ==
    /\ \E server \in Servers :
          LET c == ParseServer(server, config.ca_file, config.has_ssl)
          IN  /\ config' = c
              /\ session' = IF c.ok THEN NewSession ELSE session
              /\ last' = [ op |-> "new_session", server |-> server,
                           ret |-> IF c.ok THEN "ScalyrClientSession" ELSE "Exception" ]
    /\ net' = NewNet
    /\ sends' = NoSends
    /\ UNCHANGED << req, last_time_stamp, now, saved, calls, regressed, issued, pc,
                 base_timestamp, default_timeout, old_timeout >>

\* The address specification: sessions built for any of the addresses.
AddressNext == DoNewSession

AddressSpec == Init /\ [][AddressNext]_vars

\* session.ping()
DoPing ==
    /\ CooldownActive(session, now) \/ session.total_requests_sent < MaxSends
    /\ \E nb \in NetworkBehaviours, end_time \in ClockReadings :
          /\ end_time - now \in SendDurations
          /\ LET r == Ping(session, net, now, nb.connect, nb.request,
                           nb.response, end_time)
             IN  /\ session' = r.s
                 /\ net' = r.net
                 /\ now' = IF CooldownActive(session, now) THEN now ELSE end_time
                 /\ regressed' = (regressed \/ now' < now)
                 /\ last' = [ op |-> "ping", ret |-> r.ret, current_time |-> now,
                              nb |-> IF CooldownActive(session, now)
                                     THEN NoNetwork ELSE nb ]
                 /\ sends' = SendsAfter(r.ret, now')
    /\ UNCHANGED << req, last_time_stamp, saved, calls, issued, pc, base_timestamp,
                 environment >>

\* The ping specification: a caller that pings the server, closes the
\* session and lets time pass.
PingNext == DoPing \/ DoClose \/ Tick

PingSpec == Init /\ [][PingNext]_vars

\* session.ping() that takes no time or the cooldown
DoPingForward ==
    /\ CooldownActive(session, now) \/ session.total_requests_sent < MaxSends
    /\ \E nb \in LiveBehaviours, end_time \in ClockReadings :
          /\ end_time - now \in {0, Cooldown}
          /\ LET r == Ping(session, net, now, nb.connect, nb.request,
                           nb.response, end_time)
             IN  /\ session' = r.s
                 /\ net' = r.net
                 /\ now' = IF CooldownActive(session, now) THEN now ELSE end_time
                 /\ last' = [ op |-> "ping", ret |-> r.ret, current_time |-> now,
                              nb |-> IF CooldownActive(session, now)
                                     THEN NoNetwork ELSE nb ]
                 /\ sends' = SendsAfter(r.ret, now')
    /\ UNCHANGED << req, last_time_stamp, saved, calls, regressed, issued, pc,
                 base_timestamp, environment >>

\* The attempt specification: a caller that sends, pings and closes in any
\* order while the clock advances or is set back between the calls.
AttemptNext == DoSendForward \/ DoPingForward \/ DoClose \/ Tick \/ ClockStepBack

AttemptSpec == Init /\ [][AttemptNext]_vars

Spec == Init /\ [][Next]_vars

(***************************************************************************)
(* The builder's operations, as the caller invokes them on req.            *)
(***************************************************************************)
\* the caller's list of events after an add_event(event, ts) that returned ret
EventsAfter(ret, event, ts) ==
    IF ret = "True" THEN Append(calls.events, [event |-> event, ts |-> ts])
    ELSE calls.events

\* the events two lists start with in common
RECURSIVE CommonPrefix(_, _)
CommonPrefix(s, t) ==
    IF s = << >> \/ t = << >> \/ Head(s) # Head(t) THEN << >>
    ELSE << Head(s) >> \o CommonPrefix(Tail(s), Tail(t))

\* the caller's list of events after set_position with a position: the
\* events appended after the position was taken are discarded, so what
\* stays is what the list still has in common with the list of that moment
\* (the truncate of line 646 is done also when line 647 then raises)
EventsKept(position_events) == CommonPrefix(calls.events, position_events)

\* every kept position stops being "only appends since"
AllStale == [ i \in 1..Len(saved) |-> [saved[i] EXCEPT !.clean = FALSE] ]

Accepted(ret) == calls.accepted \/ ret = "True"

\* req.add_event(event, timestamp) with a timestamp
DoAddEvent ==
    /\ \E event \in Events, timestamp \in ExplicitTimestamps :
          LET r == AddEvent(req, event, timestamp)
          IN  /\ req' = r.b
              /\ calls' = [calls EXCEPT !.accepted = Accepted(r.ret),
                                        !.events = EventsAfter(r.ret, event, timestamp)]
              /\ last' = [ op |-> "add_event", ret |-> r.ret, event |-> event,
                           ts |-> timestamp, stamped |-> FALSE ]
    /\ UNCHANGED << session, net, last_time_stamp, now, saved, regressed,
                 sends, issued, pc, base_timestamp,
                 environment >>

\* req.add_event(event): the timestamp is drawn from __get_timestamp, whose
\* time.time() returns t (start_pos = self.__buffer.tell() raises first on a
\* finalized request)
DoAddEventNow ==
    /\ ~req.buffer_closed
    /\ \E event \in Events, t \in StampReadings :
          LET ts == GetTimestamp(last_time_stamp, t)
              r  == AddEvent(req, event, ts)
          IN  /\ req' = r.b
              /\ now' = t
              /\ regressed' = (regressed \/ t < now)
              /\ last_time_stamp' = ts
              /\ issued' = Append(issued, ts)
              /\ calls' = [calls EXCEPT !.stamps = calls.stamps + 1,
                                        !.accepted = Accepted(r.ret),
                                        !.events = EventsAfter(r.ret, event, ts)]
              /\ last' = [ op |-> "add_event", ret |-> r.ret, event |-> event,
                           ts |-> ts, stamped |-> TRUE ]
    /\ UNCHANGED << session, net, saved, sends, pc, base_timestamp,
                 environment >>

\* the events of the caller that is watched for what add_event does to
\* them: one field, a ts field of their own, two fields
CallerEvents ==
    { << [key |-> "msg", val |-> JsonString("a")] >>,
      << [key |-> "ts", val |-> JsonString("1")],
         [key |-> "msg", val |-> JsonString("a")] >>,
      << [key |-> "msg", val |-> JsonString("a")],
         [key |-> "x", val |-> "1"] >> }

\* the caller's event after add_event(event, timestamp) on req: line 530
\* raises on a finalized request, before the event is touched
EventAfterAddEvent(event, timestamp) ==
    IF req.buffer_closed THEN event ELSE StampedEvent(event, timestamp)

\* req.add_event(event, timestamp), the caller looking at its event after
\* the call
DoAddEventDict ==
    /\ \E event \in CallerEvents, timestamp \in ExplicitTimestamps :
          LET r == AddEvent(req, event, timestamp)
          IN  /\ req' = r.b
              /\ calls' = [calls EXCEPT !.accepted = Accepted(r.ret),
                                        !.events = EventsAfter(r.ret, event, timestamp)]
              /\ last' = [ op |-> "add_event", ret |-> r.ret, event |-> event,
                           ts |-> timestamp, stamped |-> FALSE,
                           event_after |-> EventAfterAddEvent(event, timestamp) ]
    /\ UNCHANGED << session, net, last_time_stamp, now, saved, regressed,
                 sends, issued, pc, base_timestamp,
                 environment >>

\* req.add_thread(thread_id, thread_name)
DoAddThread ==
    /\ \E t \in Threads :
          LET r == AddThread(req, t.id, t.name)
          IN  /\ req' = r.b
              /\ calls' = [calls EXCEPT !.accepted = Accepted(r.ret)]
              /\ last' = [ op |-> "add_thread", ret |-> r.ret, thread |-> t ]
    /\ UNCHANGED << session, net, last_time_stamp, now, saved, regressed,
                 sends, issued, pc, base_timestamp,
                 environment >>

\* req.set_client_time(t)
DoSetClientTime ==
    /\ \E t \in ClientTimes :
          /\ req' = SetClientTime(req, t)
          /\ last' = [ op |-> "set_client_time", ret |-> "None", time |-> t ]
    /\ saved' = AllStale
    /\ UNCHANGED << session, net, last_time_stamp, now, calls, regressed,
                 sends, issued, pc, base_timestamp,
                 environment >>

\* req.get_payload()
DoGetPayload ==
    /\ LET p == GetPayload(req)
       IN  /\ req' = p.b
           /\ last' = [ op |-> "get_payload", ret |-> p.ret, raised |-> p.raised,
                        again |-> req.body_set ]
    /\ saved' = AllStale
    /\ UNCHANGED << session, net, last_time_stamp, now, calls, regressed,
                 sends, issued, pc, base_timestamp,
                 environment >>

\* req.close()
DoCloseRequest ==
    /\ req' = CloseRequest(req)
    /\ calls' = [calls EXCEPT !.closed = TRUE]
    /\ last' = [ op |-> "close_request", ret |-> "None" ]
    /\ saved' = AllStale
    /\ UNCHANGED << session, net, last_time_stamp, now, regressed,
                 sends, issued, pc, base_timestamp,
                 environment >>

\* p = req.position(), kept by the caller
DoPosition ==
    /\ IF req.buffer_closed
       THEN /\ last' = [ op |-> "position", ret |-> "AttributeError" ]
            /\ saved' = saved
       ELSE /\ last' = [ op |-> "position", ret |-> "Position" ]
            /\ saved' = Append(saved, [ position |-> Position(req), snap |-> req,
                                        clean |-> TRUE, events |-> calls.events ])
    /\ UNCHANGED << session, net, req, last_time_stamp, now, calls, regressed,
                 sends, issued, pc, base_timestamp,
                 environment >>

\* req.set_position(p) for a position p the caller kept
DoSetPosition ==
    /\ \E i \in 1..Len(saved) :
          LET r == SetPosition(req, saved[i].position)
          IN  /\ req' = r.b
              /\ last' = [ op |-> "set_position", ret |-> r.ret, index |-> i,
                           clean |-> saved[i].clean,
                           events_before |-> req.events_added,
                           threads_before |-> Len(req.threads) ]
              /\ saved' = [ j \in 1..Len(saved) |->
                              IF j = i THEN saved[j]
                              ELSE [saved[j] EXCEPT !.clean = FALSE] ]
              /\ calls' = [calls EXCEPT !.events = IF r.ret = "AttributeError"
                                                   THEN @
                                                   ELSE EventsKept(saved[i].events)]
    /\ UNCHANGED << session, net, last_time_stamp, now, regressed,
                 sends, issued, pc, base_timestamp,
                 environment >>

\* The builder specification: a caller that appends, keeps and restores
\* positions and sets the client time, then finalizes the request; after
\* get_payload it only sets the client time and reads the payload again
\* ("After this is invoked, no new events can be added").
BuilderNext ==
    \/ DoGetPayload
    \/ DoSetClientTime
    \/ ~req.body_set /\ DoAddEvent
    \/ ~req.body_set /\ calls.stamps < MaxStamps /\ DoAddEventNow
    \/ ~req.body_set /\ DoAddThread
    \/ ~req.body_set /\ Len(saved) < MaxSaved /\ DoPosition
    \/ ~req.body_set /\ DoSetPosition

BuilderSpec == BuilderInit /\ [][BuilderNext]_vars

\* req = session.add_events_request(max_size=m): the caller goes on with a
\* new request; the positions it kept were of the old one
DoNewRequest ==
    /\ \E m \in MaxSizes : req' = AddEventsRequest(m, now)
    /\ saved' = << >>
    /\ calls' = [calls EXCEPT !.accepted = FALSE, !.closed = FALSE,
                              !.events = << >>]
    /\ last' = [ op |-> "add_events_request" ]
    /\ UNCHANGED << session, net, last_time_stamp, now, regressed,
                 sends, issued, pc, base_timestamp,
                 environment >>

\* The generator specification, one thread: add_event without a timestamp
\* on one request after the other, the clock standing still, advancing or
\* set back between the calls.
GeneratorNext ==
    \/ Len(issued) < MaxIssued /\ DoAddEventNow
    \/ DoNewRequest

GeneratorSpec == BuilderInit /\ [][GeneratorNext]_vars

\* The resend specification: a caller that goes on calling add_event,
\* add_thread, set_client_time and get_payload on a request after it was
\* finalized, as well as before.
ResendNext ==
    \/ DoGetPayload
    \/ DoSetClientTime
    \/ DoAddEvent
    \/ Len(req.threads) < MaxThreads /\ DoAddThread

ResendSpec == BuilderInit /\ [][ResendNext]_vars

\* The event specification: a caller that appends events of several shapes
\* and looks at each after the call, before and after the request is
\* finalized.
EventNext ==
    \/ DoAddEventDict
    \/ DoGetPayload

EventSpec == BuilderInit /\ [][EventNext]_vars

\* The position specification: a caller that keeps several positions and
\* goes back to them in any order.
PositionNext ==
    \/ DoAddEvent
    \/ Len(req.threads) < MaxThreads /\ DoAddThread
    \/ Len(saved) < MaxPositions /\ DoPosition
    \/ DoSetPosition

PositionSpec == BuilderInit /\ [][PositionNext]_vars

\* the fields a caller puts into a base body, each with its JSON text
BaseFields ==
    { [key |-> "token",       val |-> JsonString(ApiKey)],
      [key |-> "session",     val |-> JsonString(SessionId)],
      [key |-> "events",      val |-> "[]"],
      [key |-> "client_time", val |-> "1"],
      [key |-> "threads",     val |-> "[]"] }

\* the base bodies: dicts of up to MaxFields of these fields, in the order
\* the dict gives them
BaseBodies ==
    { body \in UNION { [1..n -> BaseFields] : n \in 0..MaxFields } :
        \A i, j \in 1..Len(body) : i # j => body[i].key # body[j].key }

\* req = AddEventsRequest(base_body, max_size=m); the caller keeps the
\* request it had when the constructor raises
DoConstruct ==
    /\ \E base_body \in BaseBodies, m \in MaxSizes :
          LET r == Construct(base_body, m, now)
          IN  /\ req' = IF r.ret = "AssertionError" THEN req ELSE r.b
              /\ last' = [ op |-> "new_request", ret |-> r.ret,
                           base_body |-> base_body ]
    /\ saved' = << >>
    /\ calls' = [calls EXCEPT !.accepted = FALSE, !.closed = FALSE,
                              !.events = << >>]
    /\ UNCHANGED << session, net, last_time_stamp, now, regressed,
                 sends, issued, pc, base_timestamp,
                 environment >>

\* The construction specification: requests built from any base body, and
\* their payload.
ConstructNext ==
    \/ DoConstruct
    \/ DoGetPayload

ConstructSpec == BuilderInit /\ [][ConstructNext]_vars

\* The close specification: a caller that calls close() on the request, before
\* or after get_payload, and goes on using it.
CloseNext ==
    \/ DoCloseRequest
    \/ DoGetPayload
    \/ DoAddEvent
    \/ Len(req.threads) < MaxThreads /\ DoAddThread

CloseSpec == BuilderInit /\ [][CloseNext]_vars

(***************************************************************************)
(* __get_timestamp called by several threads at once.  Nothing in the      *)
(* function takes a lock, so the threads interleave between its lines:     *)
(* each line below is one step of one thread.                              *)
(***************************************************************************)
\* calls of __get_timestamp that have started
Started == Len(issued) + Cardinality({ c \in Callers : pc[c] # "idle" })

\* line 620: base_timestamp = long(time.time() * 1000000000L)
GetTimestampRead(c) ==
    /\ pc[c] = "idle"
    /\ Started < MaxIssued
    /\ \E t \in StampReadings :
          /\ base_timestamp' = [base_timestamp EXCEPT ![c] = t * NanosPerSecond]
          /\ now' = t
          /\ regressed' = (regressed \/ t < now)
    /\ pc' = [pc EXCEPT ![c] = "621"]
    /\ last' = [ op |-> "get_timestamp_620", caller |-> c ]
    /\ UNCHANGED << session, net, req, last_time_stamp, saved, calls, sends, issued,
                 environment >>

\* line 621: if __last_time_stamp__ is not None and
\*              base_timestamp <= __last_time_stamp__
GetTimestampCompare(c) ==
    /\ pc[c] = "621"
    /\ pc' = [pc EXCEPT ![c] =
                 IF last_time_stamp # None /\ base_timestamp[c] <= last_time_stamp
                 THEN "622" ELSE "623"]
    /\ last' = [ op |-> "get_timestamp_621", caller |-> c ]
    /\ UNCHANGED << session, net, req, last_time_stamp, now, saved, calls, regressed,
                 sends, issued, base_timestamp,
                 environment >>

\* line 622: base_timestamp = __last_time_stamp__ + 1L
GetTimestampBump(c) ==
    /\ pc[c] = "622"
    /\ base_timestamp' = [base_timestamp EXCEPT ![c] = last_time_stamp + 1]
    /\ pc' = [pc EXCEPT ![c] = "623"]
    /\ last' = [ op |-> "get_timestamp_622", caller |-> c ]
    /\ UNCHANGED << session, net, req, last_time_stamp, now, saved, calls, regressed,
                 sends, issued,
                 environment >>

\* lines 623-624: __last_time_stamp__ = base_timestamp; return base_timestamp
GetTimestampStore(c) ==
    /\ pc[c] = "623"
    /\ last_time_stamp' = base_timestamp[c]
    /\ issued' = Append(issued, base_timestamp[c])
    /\ pc' = [pc EXCEPT ![c] = "idle"]
    /\ last' = [ op |-> "get_timestamp_623", caller |-> c ]
    /\ UNCHANGED << session, net, req, now, saved, calls, regressed, sends,
                 base_timestamp,
                 environment >>

ConcurrentNext ==
    \/ \E c \in Callers : GetTimestampRead(c)
    \/ \E c \in Callers : GetTimestampCompare(c)
    \/ \E c \in Callers : GetTimestampBump(c)
    \/ \E c \in Callers : GetTimestampStore(c)

ConcurrentSpec == Init /\ [][ConcurrentNext]_vars

(***************************************************************************)
(* HTTPSConnectionWithTimeoutAndVerification.connect called by the threads *)
(* of two sessions, each thread on the connection of its own session.      *)
(* Without the ssl module the method goes through the socket module's      *)
(* default timeout, line by line; with it the socket is created with the   *)
(* connection's own timeout in one step.                                   *)
(***************************************************************************)
\* request_deadline of the session of each thread
RequestDeadline == [ c \in Callers |-> IF c = 1 THEN 60 ELSE 10 ]

\* lines 733-746: socket.create_connection((host, port), self.__timeout)
ConnectWithSsl(c) ==
    /\ pc[c] = "idle"
    /\ config.has_ssl
    /\ net.connect_calls < MaxConnects
    /\ net' = [net EXCEPT !.connect_calls = net.connect_calls + 1]
    /\ last' = [ op |-> "connect_735", caller |-> c, timeout |-> RequestDeadline[c] ]
    /\ UNCHANGED << session, req, last_time_stamp, now, saved, calls, regressed,
                 sends, issued, pc, base_timestamp, environment >>

\* lines 720-726: old_timeout = socket.getdefaulttimeout()
ConnectGetDefault(c) ==
    /\ pc[c] = "idle"
    /\ ~config.has_ssl
    /\ net.connect_calls < MaxConnects
    /\ net' = [net EXCEPT !.connect_calls = net.connect_calls + 1]
    /\ old_timeout' = [old_timeout EXCEPT ![c] = default_timeout]
    /\ pc' = [pc EXCEPT ![c] = "727"]
    /\ last' = [ op |-> "connect_726", caller |-> c, timeout |-> default_timeout ]
    /\ UNCHANGED << session, req, last_time_stamp, now, saved, calls, regressed,
                 sends, issued, base_timestamp, config, default_timeout >>

\* line 727: socket.setdefaulttimeout(self.__timeout)
ConnectSetDefault(c) ==
    /\ pc[c] = "727"
    /\ default_timeout' = RequestDeadline[c]
    /\ pc' = [pc EXCEPT ![c] = "728"]
    /\ last' = [ op |-> "connect_727", caller |-> c, timeout |-> RequestDeadline[c] ]
    /\ UNCHANGED << session, net, req, last_time_stamp, now, saved, calls, regressed,
                 sends, issued, base_timestamp, config, old_timeout >>

\* line 728: httplib.HTTPSConnection.connect(self), which returns or raises;
\* its socket gets the default timeout of that moment
ConnectPlain(c) ==
    /\ pc[c] = "728"
    /\ pc' = [pc EXCEPT ![c] = "731"]
    /\ \E outcome \in {"connected", "errno"} :
          last' = [ op |-> "connect_728", caller |-> c, timeout |-> default_timeout,
                    outcome |-> outcome ]
    /\ UNCHANGED << session, net, req, last_time_stamp, now, saved, calls, regressed,
                 sends, issued, base_timestamp, environment >>

\* line 731: finally: socket.setdefaulttimeout(old_timeout)
ConnectRestoreDefault(c) ==
    /\ pc[c] = "731"
    /\ default_timeout' = old_timeout[c]
    /\ pc' = [pc EXCEPT ![c] = "idle"]
    /\ last' = [ op |-> "connect_731", caller |-> c, timeout |-> old_timeout[c] ]
    /\ UNCHANGED << session, net, req, last_time_stamp, now, saved, calls, regressed,
                 sends, issued, base_timestamp, config, old_timeout >>

TimeoutInit ==
    /\ session = NewSession
    /\ net = NewNet
    /\ now = 0
    /\ req = AddEventsRequest(DefaultMaxSize, 0)
    /\ last_time_stamp = None
    /\ saved = << >>
    /\ calls = NoCalls
    /\ regressed = FALSE
    /\ last = [ op |-> "init" ]
    /\ sends = NoSends
    /\ issued = << >>
    /\ pc = [ c \in Callers |-> "idle" ]
    /\ base_timestamp = [ c \in Callers |-> None ]
    /\ \E has_ssl \in BOOLEAN : config = [DefaultConfig EXCEPT !.has_ssl = has_ssl]
    /\ default_timeout = None
    /\ old_timeout = [ c \in Callers |-> None ]

TimeoutNext ==
    \/ \E c \in Callers : ConnectWithSsl(c)
    \/ \E c \in Callers : ConnectGetDefault(c)
    \/ \E c \in Callers : ConnectSetDefault(c)
    \/ \E c \in Callers : ConnectPlain(c)
    \/ \E c \in Callers : ConnectRestoreDefault(c)

TimeoutSpec == TimeoutInit /\ [][TimeoutNext]_vars

(***************************************************************************)
(* Properties of send, checked under Spec.  A step is a send when last'    *)
(* names it; the unprimed variables are the session before the call.       *)
(***************************************************************************)

\* C1 (as written): a send started less than 30 s after the recorded close
\* returns ("client/connectionClosed", 0, ""), calls no connect, leaves the
\* session without a connection and changes no counter.
C1_CooldownSendLeavesNoConnection ==
    [][ ( /\ last'.op = "send"
          /\ session.last_connection_close # None
          /\ now - session.last_connection_close < 30 )
        => ( /\ last'.ret = Returned("client/connectionClosed", 0, "")
             /\ net'.connect_calls = net.connect_calls
             /\ session'.connection = None
             /\ session'.total_requests_sent = session.total_requests_sent
             /\ session'.total_requests_failed = session.total_requests_failed
             /\ session'.total_request_bytes_sent = session.total_request_bytes_sent
             /\ session'.total_response_bytes_received
                    = session.total_response_bytes_received
             /\ session'.total_request_latency_secs
                    = session.total_request_latency_secs
             /\ session'.total_connections_created
                    = session.total_connections_created ) ]_vars

\* C1 (amended): such a send returns ("client/connectionClosed", 0, ""),
\* reaches no connection and leaves every field of the session, counters and
\* connection included, as it was; the session is then without a connection
\* provided the wall clock never stepped backward.
C1_CooldownSendShortCircuits ==
    [][ ( /\ last'.op = "send"
          /\ session.last_connection_close # None
          /\ now - session.last_connection_close < 30 )
        => ( /\ last'.ret = Returned("client/connectionClosed", 0, "")
             /\ net' = net
             /\ session' = session
             /\ req' = req
             /\ (~regressed' => session'.connection = None) ) ]_vars

\* a send was short-circuited 29 s after the close of a failed send
C1_Witness ==
    /\ last.op = "send"
    /\ last.ret.status = "client/connectionClosed"
    /\ session.total_requests_failed = 1
    /\ last.current_time - session.last_connection_close = 29

\* C2 (as written): a send that gets past the cooldown guard and returns a
\* status other than "success" ends with the session holding no connection,
\* the failed-request counter increased by exactly one, and the close
\* recorded so that the cooldown guard holds at the time the send ends.
C2_FailedSendStartsCooldown ==
    [][ ( /\ last'.op = "send"
          /\ ~( /\ session.last_connection_close # None
                /\ now - session.last_connection_close < 30 )
          /\ ~last'.ret.raised
          /\ last'.ret.status # "success" )
        => ( /\ session'.connection = None
             /\ session'.total_requests_failed = session.total_requests_failed + 1
             /\ session'.last_connection_close # None
             /\ now' - session'.last_connection_close < 30 ) ]_vars

\* C2 (what the code does): such a send ends with the session holding no
\* connection, the failed-request counter increased by exactly one, and the
\* close recorded at the time the send read on entry: the cooldown guard
\* holds for the 30 s that follow the start of the send.
C2_FailedSendClosesConnection ==
    [][ ( /\ last'.op = "send"
          /\ ~( /\ session.last_connection_close # None
                /\ now - session.last_connection_close < 30 )
          /\ ~last'.ret.raised
          /\ last'.ret.status # "success" )
        => ( /\ session'.connection = None
             /\ session'.total_requests_failed = session.total_requests_failed + 1
             /\ session'.last_connection_close = now
             /\ \A t \in now..(now + 29) : CooldownActive(session', t) ) ]_vars

\* a send on a connection kept from a successful send came back with a
\* server error
C2_Witness ==
    /\ last.op = "send"
    /\ last.ret.status = "error/server"
    /\ net.request_calls = 2
    /\ net.connect_calls = 1
    /\ session.connection = None
    /\ session.last_connection_close = last.current_time

\* C3 (as written): a send that returns "success" leaves the connection
\* open, the failed-request counter and the close time as they were; the
\* next send on the session, the one that finds the connection open, is not
\* stopped by the cooldown, writes its request on that connection and leaves
\* the connections-created counter as it was.
C3_NextSendReusesConnection ==
    [][ /\ ( (last'.op = "send" /\ ~last'.ret.raised /\ last'.ret.status = "success")
             => ( /\ session'.connection # None
                  /\ session'.total_requests_failed = session.total_requests_failed
                  /\ session'.last_connection_close = session.last_connection_close ) )
        /\ ( (last'.op = "send" /\ session.connection # None)
             => ( /\ last'.ret.status # "client/connectionClosed"
                  /\ net'.request_calls = net.request_calls + 1
                  /\ net'.request_conn = session.connection
                  /\ net'.connect_calls = net.connect_calls
                  /\ session'.total_connections_created
                         = session.total_connections_created ) ) ]_vars

\* C3 (amended): a send that returns "success" leaves the connection open,
\* the failed-request counter and the close time as they were; the next send
\* opens no connection and leaves the connections-created counter as it was,
\* and when the cooldown guard lets it through it writes its request on the
\* connection left open; the guard lets it through whenever the wall clock
\* never stepped backward.
C3_SuccessKeepsConnection ==
    [][ /\ ( (last'.op = "send" /\ ~last'.ret.raised /\ last'.ret.status = "success")
             => ( /\ session'.connection # None
                  /\ session'.total_requests_failed = session.total_requests_failed
                  /\ session'.last_connection_close = session.last_connection_close ) )
        /\ ( (last'.op = "send" /\ session.connection # None)
             => ( /\ net'.connect_calls = net.connect_calls
                  /\ session'.total_connections_created
                         = session.total_connections_created
                  /\ ( last'.ret.status # "client/connectionClosed"
                       => ( /\ net'.request_calls = net.request_calls + 1
                            /\ net'.request_conn = session.connection ) )
                  /\ ( ~regressed => last'.ret.status # "client/connectionClosed" ) ) )
      ]_vars

\* two sends succeeded over the one connection ever opened, which is open
C3_Witness ==
    /\ last.op = "send"
    /\ last.ret.status = "success"
    /\ net.request_calls = 2
    /\ net.connect_calls = 1
    /\ net.request_conn = session.connection
    /\ session.total_connections_created = 1
    /\ session.total_requests_failed = 0

C7_PayloadWithinMaxSize ==
    (calls.accepted /\ ~GetPayload(req).raised)
        => Len(GetPayload(req).ret) <= req.max_size

\* an event was accepted and the running size is at the ceiling
C7_Witness ==
    /\ calls.accepted
    /\ req.events_added = 1
    /\ ~req.body_set
    /\ req.current_size = req.max_size

\* C8: an add_event or add_thread that is rejected for its size returns
\* false and leaves the request as it was: total_events, the thread list,
\* the running size, the buffer (content and write offset); the payload and
\* the result of every later add_event (with a given timestamp) and
\* add_thread are what they would have been without the call.
C8_RejectedAppendLeavesBuilder ==
    [][ ( /\ last'.op \in {"add_event", "add_thread"}
          /\ last'.ret = "False" )
        => ( /\ req'.events_added = req.events_added
             /\ req'.threads = req.threads
             /\ req'.current_size = req.current_size
             /\ req'.buffer = req.buffer
             /\ Len(req'.buffer) = Len(req.buffer)
             /\ req' = req
             /\ saved' = saved
             /\ GetPayload(req').ret = GetPayload(req).ret
             /\ \A e \in Events, ts \in ExplicitTimestamps :
                    AddEvent(req', e, ts) = AddEvent(req, e, ts)
             /\ \A t \in Threads :
                    AddThread(req', t.id, t.name) = AddThread(req, t.id, t.name) ) ]_vars

\* an event was rejected after another had been accepted, so that the
\* rejected one had written a separating comma
C8_Witness ==
    /\ last.op = "add_event"
    /\ last.ret = "False"
    /\ req.events_added >= 1
    /\ ~req.buffer_closed

\* C9: add_event and add_thread return true exactly when the running size
\* plus the bytes of the addition (the serialized event or thread, and a
\* comma when it is not the first) is at most max_size, and the running size
\* grows by those bytes; total_events grows by one on an accepted add_event
\* and stays as it was on add_thread and on a rejected call.
C9_AcceptedIffFits ==
    [][ /\ ( last'.op = "add_event" /\ last'.ret \in {"True", "False"} )
           => LET needed == Len(SerializeEvent(last'.event, last'.ts))
                              + (IF req.events_added > 0 THEN 1 ELSE 0)
              IN  /\ (last'.ret = "True") <=> (req.current_size + needed <= req.max_size)
                  /\ last'.ret = "True"
                       => /\ req'.events_added = req.events_added + 1
                          /\ req'.current_size = req.current_size + needed
                  /\ last'.ret = "False" => req'.events_added = req.events_added
        /\ last'.op = "add_thread"
           => LET needed == Len(SerializeThread(last'.thread))
                              + (IF Len(req.threads) > 0 THEN 1 ELSE 0)
              IN  /\ (last'.ret = "True") <=> (req.current_size + needed <= req.max_size)
                  /\ last'.ret = "True"
                       => /\ req'.threads = Append(req.threads, last'.thread)
                          /\ req'.current_size = req.current_size + needed
                  /\ req'.events_added = req.events_added ]_vars

\* an event that makes the running size exactly max_size was accepted, as
\* the second event of the request
C9_Witness ==
    /\ last.op = "add_event"
    /\ last.ret = "True"
    /\ req.events_added >= 2
    /\ req.current_size = req.max_size

\* C10: set_position with a position taken by position(), after nothing but
\* add_event and add_thread calls since, gives the request as it was when
\* the position was taken: same payload when finalized, total_events, thread
\* list, running size and buffer, hence the same result for every call made
\* afterwards.
C10_SetPositionRestores ==
    [][ ( /\ last'.op = "set_position"
          /\ last'.clean )
        => ( /\ last'.ret = "None"
             /\ req'.events_added = saved[last'.index].snap.events_added
             /\ req'.threads = saved[last'.index].snap.threads
             /\ req'.current_size = saved[last'.index].snap.current_size
             /\ GetPayload(req').ret = GetPayload(saved[last'.index].snap).ret
             /\ req' = saved[last'.index].snap ) ]_vars

\* a set_position discarded an event and a thread added after the position
\* was taken
C10_Witness ==
    /\ last.op = "set_position"
    /\ last.clean
    /\ last.ret = "None"
    /\ last.events_before > req.events_added
    /\ last.threads_before > Len(req.threads)

(***************************************************************************)
(* Properties of the timestamp generator.                                  *)
(***************************************************************************)

\* C11: with one thread calling add_event without a timestamp, on one
\* request or on several, accepted or rejected, every timestamp issued is
\* strictly greater than every timestamp issued before it, whatever the
\* clock returned.
C11_TimestampsStrictlyIncrease ==
    /\ \A i, j \in 1..Len(issued) : i < j => issued[i] < issued[j]
    /\ Len(issued) > 0 => last_time_stamp = issued[Len(issued)]

\* three timestamps were issued, the second in the same second as the
\* first, the clock was set back at some point, events went to more than
\* one request, and the last event was rejected
C11_Witness ==
    /\ Len(issued) = 3
    /\ issued[2] = issued[1] + 1
    /\ regressed
    /\ last.op = "add_event"
    /\ last.ret = "False"
    /\ req.events_added = 0

\* C12: with several threads in __get_timestamp at once, their lines
\* interleaved in any order, no two calls return the same timestamp and the
\* stored __last_time_stamp__ never decreases.
C12_ConcurrentTimestampsDistinct ==
    [][ /\ \A i, j \in 1..Len(issued') : i # j => issued'[i] # issued'[j]
        /\ last_time_stamp # None => last_time_stamp' >= last_time_stamp ]_vars

\* two threads are inside __get_timestamp at once, both past the comparison
C12_Witness ==
    /\ pc[1] = "623"
    /\ pc[2] = "623"
    /\ base_timestamp[1] = base_timestamp[2]

(***************************************************************************)
(* Properties of a finalized AddEventsRequest, checked under ResendSpec.   *)
(***************************************************************************)

\* C13: get_payload returns the buffer followed by the closing fields the
\* first time, and the very same bytes on every later call as long as
\* set_client_time is not called in between; a repeated call changes nothing
\* in the request.
C13_GetPayloadIdempotent ==
    [][ /\ last'.op = "get_payload"
           => /\ ~last'.raised
              /\ req'.body_set
              /\ req'.body = last'.ret
              /\ req.body_set => (last'.ret = req.body /\ req' = req)
              /\ ~req.body_set
                   => last'.ret = req.buffer \o "], threads: "
                                     \o SerializeThreads(req.threads)
                                     \o ", client_time: "
                                     \o ToString(req.client_time) \o " }"
        /\ (req.body_set /\ last'.op # "set_client_time")
           => (req'.body_set /\ req'.body = req.body) ]_vars

\* get_payload was called again on a finalized request that holds an event,
\* after a thread was registered on it
C13_Witness ==
    /\ last.op = "get_payload"
    /\ last.again
    /\ last.ret = req.body
    /\ req.events_added >= 1
    /\ Len(req.threads) >= 1

\* where the last occurrence of pat in s starts, looking from i downward
\* (0: nowhere)
RECURSIVE LastIndexFrom(_, _, _)
LastIndexFrom(s, pat, i) ==
    IF i < 1 THEN 0
    ELSE IF SubSeq(s, i, i + Len(pat) - 1) = pat THEN i
    ELSE LastIndexFrom(s, pat, i - 1)

\* a payload up to and including the name of its client_time field: the
\* base fields, the events and the threads
UpToClientTime(payload) ==
    LET pat == ", client_time: "
        i   == LastIndexFrom(payload, pat, Len(payload) - Len(pat) + 1)
    IN  SubSeq(payload, 1, i + Len(pat) - 1)

\* C14: on a finalized request set_client_time(t) changes only the value of
\* client_time in the payload: what get_payload returns next is the former
\* payload up to the client_time field, then t, then the closing brace,
\* whatever was called on the request before.
C14_SetClientTimeRewritesOnlyClientTime ==
    [][ (last'.op = "set_client_time" /\ req.body_set)
        => ( /\ req'.body_set
             /\ GetPayload(req').ret
                  = UpToClientTime(req.body) \o ToString(last'.time) \o " }" ) ]_vars

\* set_client_time was called on a finalized request that holds an event
\* and on which a thread was registered after get_payload
C14_Witness ==
    /\ last.op = "set_client_time"
    /\ req.body_set
    /\ req.events_added = 1
    /\ Len(req.threads) = 1
    /\ req.client_time = 10

\* C15: on a finalized request every add_event and every add_thread fails
\* with an error and leaves the number of events, the thread list and the
\* payload that get_payload returns as they were.
C15_AppendAfterFinalizeFails ==
    [][ (last'.op \in {"add_event", "add_thread"} /\ req.body_set)
        => ( /\ last'.ret \notin {"True", "False"}
             /\ req'.events_added = req.events_added
             /\ req'.threads = req.threads
             /\ GetPayload(req').ret = GetPayload(req).ret ) ]_vars

\* add_event was called on a finalized request and raised
C15_Witness ==
    /\ last.op = "add_event"
    /\ last.ret = "AttributeError"
    /\ req.body_set
    /\ req.events_added = 1

(***************************************************************************)
(* Properties of the session's cooldown and counters, checked under Spec.  *)
(***************************************************************************)

\* C16: once a send has failed to open the connection, every send started
\* less than 30 s after that send returned gives ("client/connectionClosed",
\* 0, "") and calls no connect, however long the failed send took.
C16_CooldownAfterConnectFailure ==
    [][ ( /\ last'.op = "send"
          /\ sends.connect_failed_at # None
          /\ now >= sends.connect_failed_at
          /\ now - sends.connect_failed_at < 30 )
        => ( /\ last'.ret = Returned("client/connectionClosed", 0, "")
             /\ net'.connect_calls = net.connect_calls ) ]_vars

\* a send that started 29 s after the return of a send that failed to
\* connect was short-circuited
C16_Witness ==
    /\ last.op = "send"
    /\ last.ret.status = "client/connectionClosed"
    /\ sends.connect_failed_at # None
    /\ last.current_time - sends.connect_failed_at = 29
    /\ net.connect_calls = 1

\* C17: a send that gets past the cooldown guard adds exactly one to
\* total_requests_sent (also when nothing could be sent because connect
\* failed) and adds to total_requests_failed one if its status is not
\* "success" and nothing if it is; a short-circuited send, and close, add to
\* neither.  So total_requests_failed is at most total_requests_sent and
\* their difference is the number of sends that returned "success".
C17_SentAndFailedCounters ==
    [][ /\ last'.op = "send"
           => IF session.last_connection_close # None
                 /\ now - session.last_connection_close < 30
              THEN /\ session'.total_requests_sent = session.total_requests_sent
                   /\ session'.total_requests_failed = session.total_requests_failed
              ELSE /\ session'.total_requests_sent = session.total_requests_sent + 1
                   /\ session'.total_requests_failed
                        = session.total_requests_failed
                            + (IF last'.ret.status = "success" THEN 0 ELSE 1)
        /\ last'.op # "send"
           => /\ session'.total_requests_sent = session.total_requests_sent
              /\ session'.total_requests_failed = session.total_requests_failed
        /\ session'.total_requests_failed <= session'.total_requests_sent
        /\ session'.total_requests_sent - session'.total_requests_failed
             = sends'.successes ]_vars

\* after a send that succeeded and one that failed, a send was
\* short-circuited
C17_Witness ==
    /\ last.op = "send"
    /\ last.ret.status = "client/connectionClosed"
    /\ session.total_requests_sent = 2
    /\ session.total_requests_failed = 1
    /\ sends.successes = 1

\* C18: on a send that gets past the cooldown guard, whatever its outcome,
\* total_request_latency_secs grows by the difference of the clock readings
\* at its end and at its start, total_request_bytes_sent by the bytes-sent
\* value the send returns, and total_response_bytes_received by the length
\* of the response body read (nothing when none was read).
C18_LatencyAndByteCounters ==
    [][ ( /\ last'.op = "send"
          /\ ~( /\ session.last_connection_close # None
                /\ now - session.last_connection_close < 30 ) )
        => ( /\ session'.total_request_latency_secs
                  = session.total_request_latency_secs + (now' - now)
             /\ session'.total_request_bytes_sent
                  = session.total_request_bytes_sent + last'.ret.bytes_sent
             /\ session'.total_response_bytes_received
                  = session.total_response_bytes_received
                      + (IF /\ last'.nb.request = "ok"
                            /\ (session.connection # None
                                  \/ last'.nb.connect = "connected")
                         THEN Len(last'.nb.response) ELSE 0) ) ]_vars

\* a send that took 30 s read a 6-byte body that does not parse
C18_Witness ==
    /\ last.op = "send"
    /\ last.ret.status = "parseResponseFailed"
    /\ session.total_requests_sent = 1
    /\ session.total_response_bytes_received = 6
    /\ session.total_request_latency_secs = 30
    /\ session.total_request_bytes_sent = last.ret.bytes_sent
    /\ last.ret.bytes_sent > 0

\* C19: none of the six counters of the session ever decreases, whatever
\* the clock does during a send.
C19_CountersNeverDecrease ==
    [][ /\ session'.total_requests_sent >= session.total_requests_sent
        /\ session'.total_requests_failed >= session.total_requests_failed
        /\ session'.total_request_bytes_sent >= session.total_request_bytes_sent
        /\ session'.total_response_bytes_received
             >= session.total_response_bytes_received
        /\ session'.total_request_latency_secs >= session.total_request_latency_secs
        /\ session'.total_connections_created
             >= session.total_connections_created ]_vars

\* C19 (what holds): the five counters other than the latency never
\* decrease, and the latency does not decrease in a step in which the clock
\* does not move backward.
C19_OtherCountersNeverDecrease ==
    [][ /\ session'.total_requests_sent >= session.total_requests_sent
        /\ session'.total_requests_failed >= session.total_requests_failed
        /\ session'.total_request_bytes_sent >= session.total_request_bytes_sent
        /\ session'.total_response_bytes_received
             >= session.total_response_bytes_received
        /\ now' >= now
             => session'.total_request_latency_secs
                  >= session.total_request_latency_secs
        /\ session'.total_connections_created
             >= session.total_connections_created ]_vars

\* the clock was set back during a send and the cumulative latency is
\* negative
C19_Witness ==
    /\ last.op = "send"
    /\ last.ret.status = "success"
    /\ regressed
    /\ session.total_request_latency_secs < 0

(***************************************************************************)
(* Properties of set_position, checked under PositionSpec.                 *)
(***************************************************************************)

\* C20: set_position with a position whose thread_count is greater than the
\* number of threads the request holds raises AssertionError instead of
\* returning.
C20_SetPositionRejectsThreadCount ==
    [][ ( /\ last'.op = "set_position"
          /\ saved[last'.index].position.thread_count > Len(req.threads) )
        => last'.ret = "AssertionError" ]_vars

\* set_position raised for a position taken when the request held more
\* threads than it does now
C20_Witness ==
    /\ last.op = "set_position"
    /\ last.ret = "AssertionError"
    /\ saved[last.index].position.thread_count > Len(req.threads)

(***************************************************************************)
(* Properties of AddEventsRequest.close, checked under CloseSpec.          *)
(***************************************************************************)

\* C21: once close() was called on a request, before or after get_payload,
\* every add_event, add_thread and get_payload on it raises.
C21_UseAfterCloseFails ==
    [][ ( /\ calls.closed
          /\ last'.op \in {"add_event", "add_thread", "get_payload"} )
        => IF last'.op = "get_payload" THEN last'.raised
           ELSE last'.ret \notin {"True", "False"} ]_vars

\* C21 (what holds): on a request that was finalized and then closed,
\* add_event and get_payload raise AttributeError; add_thread raises on no
\* request, and nothing raises on a request closed before get_payload.
C21_FinalizedAndClosedRaises ==
    [][ /\ ( /\ calls.closed /\ req.buffer_closed /\ ~req.body_set
             /\ last'.op \in {"add_event", "get_payload"} )
           => last'.ret = "AttributeError"
        /\ last'.op = "add_thread" => last'.ret \in {"True", "False"}
        /\ ( /\ calls.closed /\ ~req.buffer_closed
             /\ last'.op \in {"add_event", "get_payload"} )
           => last'.ret # "AttributeError" ]_vars

\* close() was called on a request that was never finalized, and an
\* add_event on it was accepted afterwards
C21_Witness ==
    /\ calls.closed
    /\ ~req.buffer_closed
    /\ last.op = "add_event"
    /\ last.ret = "True"

(***************************************************************************)
(* Properties of AddEventsRequest.__init__, checked under ConstructSpec.   *)
(***************************************************************************)

\* C22: the constructor raises exactly when the base body is empty or has
\* one of the keys events, client_time, threads.
C22_ReservedKeysRejected ==
    [][ last'.op = "new_request"
        => ( last'.ret = "AssertionError"
             <=> ( \/ Len(last'.base_body) = 0
                   \/ HasKey(last'.base_body, "events")
                   \/ HasKey(last'.base_body, "client_time")
                   \/ HasKey(last'.base_body, "threads") ) ) ]_vars

\* C22 (what holds): the constructor raises exactly when the base body is
\* empty or has one of the keys events, client_time.
C22_EventsAndClientTimeRejected ==
    [][ last'.op = "new_request"
        => ( last'.ret = "AssertionError"
             <=> ( \/ Len(last'.base_body) = 0
                   \/ HasKey(last'.base_body, "events")
                   \/ HasKey(last'.base_body, "client_time") ) ) ]_vars

\* a request was built from a base body that has the key threads
C22_Witness ==
    /\ last.op = "new_request"
    /\ HasKey(last.base_body, "threads")
    /\ last.ret = "AddEventsRequest"
    /\ req.buffer = OpenScaffold(last.base_body)

(***************************************************************************)
(* Properties of the session's close, checked under Spec.                  *)
(***************************************************************************)

\* C23: close() on a session that holds a connection closes that connection,
\* leaves the session without one and records the clock reading as the close
\* time, changing nothing else, so that the cooldown guard is active at
\* every reading of the next 30 seconds and a send made then is
\* short-circuited without reaching the network, although nothing failed;
\* close() on a session without a connection changes nothing.
C23_CloseRecordsTimeOnlyWhenOpen ==
    [][ /\ last'.op = "close"
           => IF session.connection # None
              THEN /\ session' = [session EXCEPT !.connection = None,
                                                 !.last_connection_close = now]
                   /\ net' = [net EXCEPT !.closed = net.closed \cup {session.connection}]
                   /\ \A t \in now..(now + 29) :
                         /\ session'.last_connection_close # None
                         /\ t - session'.last_connection_close < 30
              ELSE /\ session' = session
                   /\ net' = net
        /\ ( /\ last'.op = "send"
             /\ session.last_connection_close # None
             /\ now - session.last_connection_close < 30 )
           => ( /\ last'.ret.status = "client/connectionClosed"
                /\ net' = net ) ]_vars

\* a send was short-circuited 29 s after a close() that followed a
\* successful send; no send has failed
C23_Witness ==
    /\ last.op = "send"
    /\ last.ret.status = "client/connectionClosed"
    /\ session.total_requests_sent = 1
    /\ session.total_requests_failed = 0
    /\ session.connection = None
    /\ last.current_time - session.last_connection_close = 29

(***************************************************************************)
(* Properties of the order of the steps of send, checked under Spec.       *)
(***************************************************************************)

\* C24: after every send that gets past the cooldown guard the request's
\* client time is the clock reading the send started with, also when the
\* send returned "client/connectionFailed".
C24_ClientTimeStampedBeforeConnect ==
    [][ ( /\ last'.op = "send"
          /\ ~( /\ session.last_connection_close # None
                /\ now - session.last_connection_close < 30 ) )
        => req'.client_time = now ]_vars

\* C24 (what holds): the request's client time is the send's clock reading
\* after every send that has a connection, and is left as it was by a send
\* that could not connect.
C24_ClientTimeStampedAfterConnect ==
    [][ ( /\ last'.op = "send"
          /\ ~( /\ session.last_connection_close # None
                /\ now - session.last_connection_close < 30 ) )
        => IF last'.ret.status = "client/connectionFailed"
           THEN req' = req
           ELSE req'.client_time = now ]_vars

\* a send that could not connect left the request with the client time of
\* an earlier moment
C24_Witness ==
    /\ last.op = "send"
    /\ last.ret.status = "client/connectionFailed"
    /\ req.client_time # last.current_time

(***************************************************************************)
(* Properties of the events array of the payload, checked under            *)
(* PositionSpec and BuilderSpec.                                           *)
(***************************************************************************)
RECURSIVE IndexFrom(_, _, _)
IndexFrom(s, pat, i) ==
    IF i + Len(pat) - 1 > Len(s) THEN 0
    ELSE IF SubSeq(s, i, i + Len(pat) - 1) = pat THEN i
    ELSE IndexFrom(s, pat, i + 1)

\* the text of the events array of a payload: what stands between the first
\* ", events: [" and the last "], threads: "
EventsArray(payload) ==
    LET open  == ", events: ["
        close == "], threads: "
        i     == IndexFrom(payload, open, 1)
        j     == LastIndexFrom(payload, close, Len(payload) - Len(close) + 1)
    IN  IF i = 0 \/ j = 0 \/ j < i + Len(open) THEN "no events array"
        ELSE SubSeq(payload, i + Len(open), j - 1)

\* the events of a list, each serialized with its ts, separated by commas
RECURSIVE JoinEvents(_)
JoinEvents(events) ==
    IF events = << >> THEN ""
    ELSE SerializeEvent(Head(events).event, Head(events).ts)
         \o (IF Len(events) > 1 THEN "," ELSE "") \o JoinEvents(Tail(events))

\* a payload whose events array is the events of the list and which ends
\* with the client_time field
HoldsEvents(payload, events, client_time) ==
    /\ EventsArray(payload) = JoinEvents(events)
    /\ LET tail == ", client_time: " \o ToString(client_time) \o " }"
       IN  /\ Len(payload) > Len(tail)
           /\ SubSeq(payload, Len(payload) - Len(tail) + 1, Len(payload)) = tail

\* C25: at every point the payload get_payload would return has as its
\* events array, in order and separated by single commas, the events whose
\* add_event returned True and that no later set_position discarded, each
\* with ts as the decimal string of its timestamp, and ends with its
\* client_time field.
C25_PayloadHoldsAcceptedEvents ==
    ~req.buffer_closed
       => HoldsEvents(GetPayload(req).ret, calls.events, req.client_time)

\* C25 (what holds): the same of every payload get_payload returns, for a
\* caller that keeps one position.
C25_OnePositionPayloadHoldsAcceptedEvents ==
    [][ ( last'.op = "get_payload" /\ ~last'.raised )
        => HoldsEvents(last'.ret, calls.events, req'.client_time) ]_vars

\* an add_event was accepted and the events array of the payload starts
\* with a comma
C25_Witness ==
    /\ last.op = "add_event"
    /\ last.ret = "True"
    /\ ~req.buffer_closed
    /\ StartsWith(EventsArray(GetPayload(req).ret), ",")

(***************************************************************************)
(* Properties of ping, checked under PingSpec.                             *)
(***************************************************************************)

\* C26: ping() returns the status that send returns for a new request
\* without events on the same session, under the same behaviour of the
\* network and the clock, and leaves the session (connection, close time,
\* counters) and the network side as that send leaves them; when the
\* cooldown guard is active it returns "client/connectionClosed" and reaches
\* no connection.
C26_PingIsSendOfEmptyRequest ==
    [][ last'.op = "ping"
        => LET empty == AddEventsRequest(DefaultMaxSize, now)
               r     == Send(session, net, empty, now, last'.nb.connect,
                             last'.nb.request, last'.nb.response, now')
           IN  /\ TotalEvents(empty) = 0
               /\ last'.ret.status = r.ret.status
               /\ last'.ret.raised = r.ret.raised
               /\ session' = r.s
               /\ net' = r.net
               /\ ( /\ session.last_connection_close # None
                    /\ now - session.last_connection_close < 30 )
                  => ( /\ last'.ret.status = "client/connectionClosed"
                       /\ net' = net
                       /\ session' = session ) ]_vars

\* a ping returned "success" on the connection an earlier ping had opened
C26_Witness ==
    /\ last.op = "ping"
    /\ last.ret.status = "success"
    /\ session.total_requests_sent = 2
    /\ net.connect_calls = 1
    /\ net.request_calls = 2

(***************************************************************************)
(* Properties of two sessions connecting at once, checked under            *)
(* TimeoutSpec.                                                            *)
(***************************************************************************)

\* C27: the connect of one session is not affected by, and does not affect,
\* the connect of another: the socket of each connect gets the timeout of
\* its own session, and when no connect is running the process-wide default
\* socket timeout is what it was before the sessions connected.
C27_SessionsShareNoSettings ==
    [][ /\ last'.op \in {"connect_728", "connect_735"}
           => last'.timeout = RequestDeadline[last'.caller]
        /\ (\A c \in Callers : pc'[c] = "idle") => default_timeout' = None ]_vars

\* C27 (what holds): with the ssl module, no connect reads or changes the
\* default socket timeout and every socket gets its session's timeout.
C27_WithSslNoSharedSettings ==
    [][ config.has_ssl
        => ( /\ default_timeout' = default_timeout
             /\ last'.op = "connect_735"
             /\ last'.timeout = RequestDeadline[last'.caller] ) ]_vars

\* both sessions have returned from connect and the default socket timeout
\* of the process is left at the timeout of one of them
C27_Witness ==
    /\ \A c \in Callers : pc[c] = "idle"
    /\ net.connect_calls = 2
    /\ default_timeout # None
    /\ ~config.has_ssl

(***************************************************************************)
(* Properties of certificate verification, checked under TlsSpec.          *)
(***************************************************************************)

\* C28 (as written): a send that opens a connection on an https session
\* with a CA bundle, to a server whose certificate does not verify, returns
\* ("client/connectionFailed", 0, "") and writes no request.
C28_UntrustedServerGetsNoPayload ==
    [][ ( /\ last'.op = "send"
          /\ last'.nb # NoNetwork
          /\ session.connection = None
          /\ config.use_ssl
          /\ config.ca_file # NoFile
          /\ last'.cert = "untrusted" )
        => ( /\ last'.ret = Returned("client/connectionFailed", 0, "")
             /\ net'.request_calls = net.request_calls ) ]_vars

\* C28 (amended): in a Python that has the ssl module, a send that opens a
\* connection on an https session with a CA bundle, to a server whose
\* certificate does not verify, returns ("client/connectionFailed", 0, "")
\* and writes no request; on an https session without a CA bundle, or in a
\* Python without the ssl module, the certificate is not looked at: when
\* the socket opens the request is written, whatever the certificate.
C28_UntrustedServerGetsNoPayloadWithSsl ==
    [][ ( /\ last'.op = "send"
          /\ last'.nb # NoNetwork
          /\ session.connection = None
          /\ config.use_ssl )
        => ( /\ ( /\ config.has_ssl
                  /\ config.ca_file # NoFile
                  /\ last'.cert = "untrusted" )
                => ( /\ last'.ret = Returned("client/connectionFailed", 0, "")
                     /\ net'.request_calls = net.request_calls
                     /\ session'.total_request_bytes_sent
                          = session.total_request_bytes_sent )
             /\ ( /\ (~config.has_ssl \/ config.ca_file = NoFile)
                  /\ last'.nb.connect = "connected" )
                => ( /\ net'.request_calls = net.request_calls + 1
                     /\ last'.ret.status # "client/connectionFailed" ) ) ]_vars

\* a send on an https session with a CA bundle reached a server whose
\* socket opened and whose certificate did not verify, and failed to connect
C28_Witness ==
    /\ last.op = "send"
    /\ config.use_ssl /\ config.has_ssl /\ config.ca_file # NoFile
    /\ last.nb.connect = "connected"
    /\ last.cert = "untrusted"
    /\ last.ret.status = "client/connectionFailed"
    /\ net.request_calls = 0

(***************************************************************************)
(* Properties of the connection instances, checked under Spec.             *)
(***************************************************************************)

\* C29: after every step the connection the session holds, if any, has not
\* been closed, and it is the only connection instance not closed; every
\* request is written on an instance that is not closed and was created
\* after every instance closed so far: the one the session held before the
\* send, or one this send created and whose connect() returned.
C29_ClosedConnectionNeverReused ==
    [][ /\ session'.connection # None => session'.connection \notin net'.closed
        /\ { i \in 1..net'.connect_calls : i \notin net'.closed }
             \subseteq {session'.connection}
        /\ ( last'.op = "send" /\ net'.request_calls > net.request_calls )
           => ( /\ net'.request_calls = net.request_calls + 1
                /\ net'.request_conn \notin net.closed
                /\ \A i \in net.closed : i < net'.request_conn
                /\ IF session.connection # None
                   THEN /\ net'.request_conn = session.connection
                        /\ net'.connect_calls = net.connect_calls
                   ELSE /\ net'.request_conn = net.connect_calls + 1
                        /\ net'.connect_calls = net.connect_calls + 1
                        /\ last'.nb.connect = "connected" ) ]_vars

\* a request was written on the second connection instance, created after
\* the first one was closed
C29_Witness ==
    /\ last.op = "send"
    /\ net.request_conn = 2
    /\ net.closed = {1}
    /\ session.connection = 2
    /\ net.request_calls = 2

(***************************************************************************)
(* Properties of the server address, checked under AddressSpec.            *)
(***************************************************************************)
\* an address of the form scheme://host[:port]: scheme http or https in
\* either case, a host that is not empty and has no colon, and nothing more
\* or a colon and digits
StrictAddress(server) ==
    \E scheme \in {"http://", "https://"} :
       /\ StartsWith(Lower(server), scheme)
       /\ LET rest == SubSeq(server, Len(scheme) + 1, Len(server))
              n    == UpToColon(rest, 0)
          IN  /\ n > 0
              /\ \/ n = Len(rest)
                 \/ IsDigits(SubSeq(rest, n + 2, Len(rest)))

\* the port such an address names: the digits after the last colon when
\* they are the end of the address, else 443 for https and 80 for http
ExpectedPort(server) ==
    LET i == LastIndexFrom(server, ":", Len(server))
    IN  IF i > 0 /\ IsDigits(SubSeq(server, i + 1, Len(server)))
        THEN ParseInt(SubSeq(server, i + 1, Len(server)))
        ELSE IF StartsWith(Lower(server), "https://") THEN 443 ELSE 80

\* C30: the constructor returns a session exactly for the addresses of the
\* form scheme://host[:port] with scheme http or https and raises for every
\* other string; the session's port is then the one given, else 443 for
\* https and 80 for http, and it uses TLS exactly when the scheme is https.
C30_OnlyStrictAddressesAccepted ==
    [][ last'.op = "new_session"
        => ( /\ config'.ok <=> StrictAddress(last'.server)
             /\ config'.ok
                => ( /\ config'.port = ExpectedPort(last'.server)
                     /\ config'.use_ssl
                          <=> StartsWith(Lower(last'.server), "https://") ) ) ]_vars

\* C30 (what holds): every address of that form gives a session, with the
\* port and the use of TLS as stated; so does an address without a scheme
\* or with an empty host, when it has no colon other than the one of a
\* scheme and of a port of digits, and it is then taken for http unless it
\* starts with https://.
C30_StrictAddressesAccepted ==
    [][ last'.op = "new_session"
        => ( /\ StrictAddress(last'.server) => config'.ok
             /\ config'.ok
                => ( /\ config'.port = ExpectedPort(last'.server)
                     /\ config'.use_ssl
                          <=> StartsWith(Lower(last'.server), "https://") )
             /\ ( config'.ok /\ ~StrictAddress(last'.server) )
                => \/ config'.host = ""
                   \/ /\ ~StartsWith(Lower(last'.server), "http://")
                      /\ ~StartsWith(Lower(last'.server), "https://") ) ]_vars

\* a session was built for an address without a scheme
C30_Witness ==
    /\ last.op = "new_session"
    /\ last.server = "localhost:8080"
    /\ config.ok
    /\ ~config.use_ssl
    /\ config.port = 8080

(***************************************************************************)
(* Properties of the time of the last successful response, checked under   *)
(* Spec.                                                                   *)
(***************************************************************************)
\* C31: only a send that returns success changes the time of the last
\* successful response; a send whose response parses but has an error
\* status or no status, and every other failed or short-circuited send,
\* leaves it as it was.
C31_LastSuccessOnlyOnSuccess ==
    [][ ( /\ last'.op = "send"
          /\ ~(last'.ret.status = "success" /\ ~last'.ret.raised) )
        => session'.last_success = session.last_success ]_vars

\* C31 (what holds): the time is set to the send's entry reading by every
\* send whose response body parses, whatever its status, and is left as it
\* was by every other send and by close.
C31_LastSuccessOnParsedResponse ==
    [][ /\ last'.op = "send"
           => session'.last_success
                 = IF /\ ~last'.ret.raised
                      /\ last'.nb.request = "ok"
                      /\ last'.nb.connect \in {"connected"}
                      /\ Classify(last'.nb.response).parsed
                   THEN last'.current_time
                   ELSE session.last_success
        /\ last'.op = "close" => session'.last_success = session.last_success ]_vars

\* a send that returned error/server set the time of the last successful
\* response, of a session that never had a success
C31_Witness ==
    /\ last.op = "send"
    /\ last.ret.status = "error/server"
    /\ sends.successes = 0
    /\ session.last_success = last.current_time

(***************************************************************************)
(* Properties of the ts of the events of a request, checked under          *)
(* BuilderSpec, where add_event is called with and without a timestamp.    *)
(***************************************************************************)
\* C32: the ts of every accepted event, given by the caller or drawn from
\* the generator, is greater than the ts of every event accepted before it.
C32_EventTimestampsNeverRegress ==
    [][ ( last'.op = "add_event" /\ last'.ret = "True" )
        => \A i \in 1..Len(calls.events) : calls.events[i].ts < last'.ts ]_vars

\* C32 (what holds): a timestamp drawn from the generator is greater than
\* every timestamp the generator issued before; a timestamp given by the
\* caller is used as it is and leaves the generator's last timestamp alone.
C32_GeneratedTimestampsNeverRegress ==
    [][ last'.op = "add_event"
        => IF last'.stamped
           THEN /\ \A i \in 1..Len(issued) : issued[i] < last'.ts
                /\ last_time_stamp' = last'.ts
           ELSE /\ last'.ts \in ExplicitTimestamps
                /\ last_time_stamp' = last_time_stamp ]_vars

\* two events were accepted with the timestamp the caller gave, the second
\* not greater than the first
C32_Witness ==
    /\ last.op = "add_event"
    /\ last.ret = "True"
    /\ ~last.stamped
    /\ Len(calls.events) >= 2
    /\ calls.events[Len(calls.events) - 1].ts >= calls.events[Len(calls.events)].ts

(***************************************************************************)
(* Properties of what add_event does to the caller's event, checked under  *)
(* EventSpec.                                                              *)
(***************************************************************************)
\* the fields of an event other than ts, in their order
OtherFields(event) == SelectSeq(event, LAMBDA f : f.key # "ts")

\* C33: add_event, accepted or rejected, leaves every field of the caller's
\* event other than ts as it was, adds no field other than ts and removes
\* none; a rejected call leaves the builder as it was before the call, with
\* no part of the event in it.
C33_AddEventChangesOnlyTs ==
    [][ last'.op = "add_event"
        => ( /\ OtherFields(last'.event_after) = OtherFields(last'.event)
             /\ Len(last'.event_after) \in { Len(last'.event),
                                             Len(OtherFields(last'.event)) + 1 }
             /\ last'.ret = "True"
                => \E f \in { last'.event_after[i] : i \in 1..Len(last'.event_after) } :
                      f = [key |-> "ts", val |-> JsonString(ToString(last'.ts))]
             /\ last'.ret # "True" => req' = req ) ]_vars

\* an event of two fields was rejected for its size: the caller's event has
\* its two fields and ts, the builder nothing of it
C33_Witness ==
    /\ last.op = "add_event"
    /\ last.ret = "False"
    /\ Len(last.event) = 2
    /\ last.event_after
         = last.event \o << [key |-> "ts", val |-> JsonString("5")] >>
    /\ req.events_added = 1
    /\ IndexFrom(req.buffer, "\"x\"", 1) = 0

(***************************************************************************)
(* Properties of the top-level fields of the payload, checked under        *)
(* BuilderSpec on requests made by add_events_request.                     *)
(***************************************************************************)
\* how often a text occurs in another
Occurrences(s, pat) ==
    Cardinality({ i \in 1..(Len(s) - Len(pat) + 1) :
                     SubSeq(s, i, i + Len(pat) - 1) = pat })

\* how often a payload names the field k: as a key json_lib wrote, in
\* quotes, or as one of the keys written by hand, without
FieldCount(payload, k) ==
    Occurrences(payload, "\"" \o k \o "\":")
    + Occurrences(payload, " " \o k \o ": ")

\* the text of the last threads field of a payload: what stands between the
\* last "], threads: " and the last ", client_time: "
ThreadsArray(payload) ==
    LET open  == "], threads: "
        close == ", client_time: "
        i     == LastIndexFrom(payload, open, Len(payload) - Len(open) + 1)
        j     == LastIndexFrom(payload, close, Len(payload) - Len(close) + 1)
    IN  IF i = 0 \/ j = 0 \/ j < i + Len(open) THEN "no threads array"
        ELSE SubSeq(payload, i + Len(open), j - 1)

TopLevelFields == {"token", "session", "threads", "events", "client_time"}

\* C34: the payload get_payload returns when it finalizes a request made by
\* add_events_request has each of token, session, threads, events and
\* client_time exactly once, and its threads field lists the registered
\* threads in registration order.
C34_PayloadHasEachFieldOnce ==
    [][ ( last'.op = "get_payload" /\ ~last'.raised /\ ~last'.again )
        => ( /\ \A k \in TopLevelFields : FieldCount(last'.ret, k) = 1
             /\ ThreadsArray(last'.ret) = SerializeThreads(req.threads) ) ]_vars

\* C34 (what holds): token, session, events and client_time are there once
\* and threads twice: the empty list of the base body, then the field
\* written by hand, which lists the registered threads in registration
\* order.
C34_PayloadHasThreadsTwice ==
    [][ ( last'.op = "get_payload" /\ ~last'.raised /\ ~last'.again )
        => ( /\ \A k \in TopLevelFields \ {"threads"} : FieldCount(last'.ret, k) = 1
             /\ Occurrences(last'.ret, "\"threads\":[],") = 1
             /\ Occurrences(last'.ret, " threads: ") = 1
             /\ ThreadsArray(last'.ret) = SerializeThreads(req.threads) ) ]_vars

\* a request with two registered threads was finalized and its payload
\* names threads twice
C34_Witness ==
    /\ last.op = "get_payload"
    /\ ~last.raised
    /\ Len(req.threads) = 2
    /\ FieldCount(last.ret, "threads") = 2

(***************************************************************************)
(* Properties of a rejected set_position, checked under PositionSpec.      *)
(***************************************************************************)
\* C35: a set_position that raises for the position's thread count leaves
\* the request as it was before the call: running size, total_events,
\* buffer content and thread list.
C35_RejectedSetPositionChangesNothing ==
    [][ ( last'.op = "set_position" /\ last'.ret = "AssertionError" )
        => ( /\ req'.current_size = req.current_size
             /\ TotalEvents(req') = TotalEvents(req)
             /\ req'.buffer = req.buffer
             /\ req'.threads = req.threads ) ]_vars

\* C35 (what holds): such a set_position leaves the thread list as it was
\* and has taken the running size and the event count from the position
\* and cut the buffer to the position's size.
C35_RejectedSetPositionKeepsThreads ==
    [][ ( last'.op = "set_position" /\ last'.ret = "AssertionError" )
        => ( /\ req'.threads = req.threads
             /\ req'.current_size = saved[last'.index].position.current_size
             /\ TotalEvents(req') = saved[last'.index].position.events_added
             /\ req'.buffer = Truncate(req.buffer,
                                       saved[last'.index].position.buffer_size)
             /\ req'.max_size = req.max_size
             /\ req'.client_time = req.client_time ) ]_vars

\* a set_position raised for the thread count and the request has lost an
\* event it held before the call
C35_Witness ==
    /\ last.op = "set_position"
    /\ last.ret = "AssertionError"
    /\ last.events_before = 1
    /\ TotalEvents(req) = 0
    /\ EventsArray(GetPayload(req).ret) = ""

(***************************************************************************)
(* Properties of total_events, checked under PositionSpec and BuilderSpec. *)
(***************************************************************************)
\* the number of events serialized in a payload: the objects closed inside
\* its events array (no event of the model has a brace in a value)
SerializedEvents(payload) == Occurrences(EventsArray(payload), "}")

\* C36: at every point, whatever positions the caller went back to, among
\* them one taken before an earlier rollback and now ahead of the request,
\* total_events is the number of events in the payload get_payload would
\* return.
C36_TotalEventsMatchesPayload ==
    ~req.buffer_closed
       => TotalEvents(req) = SerializedEvents(GetPayload(req).ret)

\* C36 (what holds): for a caller that keeps one position, total_events is
\* the number of events in the payload get_payload returns when it
\* finalizes the request.
C36_OnePositionTotalEventsMatchesPayload ==
    [][ ( last'.op = "get_payload" /\ ~last'.raised /\ ~last'.again )
        => TotalEvents(req') = SerializedEvents(last'.ret) ]_vars

\* the caller went back to a position that lies ahead of the request:
\* total_events is 1 and the payload holds no event
C36_Witness ==
    /\ last.op = "set_position"
    /\ last.ret = "None"
    /\ ~last.clean
    /\ last.events_before = 0
    /\ TotalEvents(req) = 1
    /\ ~req.buffer_closed
    /\ SerializedEvents(GetPayload(req).ret) = 0

(***************************************************************************)
(* Properties of the running size, checked under BuilderSpec.              *)
(***************************************************************************)
\* C37: at every point before the request is finalized, after accepted and
\* rejected add_event and add_thread calls, set_client_time calls and
\* rollbacks, the running size is the length of the payload get_payload
\* would return.
C37_RunningSizeIsPayloadLength ==
    ~req.buffer_closed
       => req.current_size = Len(GetPayload(req).ret)

\* C37 (what holds): before the request is finalized the running size is
\* the length of the buffer plus that of the closing fields for the current
\* threads and the client time of construction, whatever set_client_time
\* was called with since.
C37_RunningSizeUsesConstructionTime ==
    ~req.buffer_closed
       => req.current_size = Len(req.buffer) + Len(GetPostFix(req.threads, 0))

\* set_client_time gave a request holding an event a time of one digit
\* more: the payload would be one byte longer than the running size
C37_Witness ==
    /\ last.op = "set_client_time"
    /\ ~req.buffer_closed
    /\ req.events_added = 1
    /\ Len(GetPayload(req).ret) = req.current_size + 1

(***************************************************************************)
(* Properties of set_client_time and get_payload together, checked under   *)
(* ResendSpec.                                                             *)
(***************************************************************************)
\* the times given to set_client_time: of one digit and of two
SendTimes == ClientTimes \cup {0, 7}

\* C38: on every request get_payload, set_client_time(t), get_payload
\* returns the bytes that set_client_time(t), get_payload returns on the
\* same request; and the payloads of two sends of a request, one right
\* after the other, each send setting the client time and reading the
\* payload, are the same up to the value of client_time.
C38_SetClientTimeCommutesWithFinalization ==
    \A t \in SendTimes :
       LET first  == GetPayload(req)
           after  == GetPayload(SetClientTime(first.b, t))
           direct == GetPayload(SetClientTime(req, t))
       IN  /\ after.raised = direct.raised
           /\ after.ret = direct.ret
           /\ ~direct.raised
              => \A t2 \in SendTimes :
                    LET again == GetPayload(SetClientTime(direct.b, t2))
                    IN  /\ ~again.raised
                        /\ UpToClientTime(again.ret) = UpToClientTime(direct.ret)
                        /\ direct.ret = UpToClientTime(direct.ret) \o ToString(t) \o " }"
                        /\ again.ret = UpToClientTime(direct.ret) \o ToString(t2) \o " }"

\* set_client_time(10) was called on a finalized request that holds an
\* event and a thread, both registered before get_payload, and the payload
\* is the one set_client_time(10) then get_payload gives on a request built
\* the same way
C38_Witness ==
    /\ last.op = "set_client_time"
    /\ req.body_set
    /\ req.client_time = 10
    /\ \E m \in MaxSizes, e \in Events, th \in Threads :
          LET b1 == AddEvent(AddEventsRequest(m, 0), e, 5).b
              b2 == AddThread(b1, th.id, th.name).b
          IN  /\ b2.events_added = 1
              /\ Len(b2.threads) = 1
              /\ req.body = GetPayload(SetClientTime(b2, 10)).ret
              /\ req.body # GetPayload(b2).ret

(***************************************************************************)
(* Properties of the end of the cooldown, checked under LiveSpec.          *)
(***************************************************************************)
\* a send that got past the guard reached the network: it called connect()
\* or wrote its request on the open connection
ReachedNetwork ==
    \/ net'.connect_calls > net.connect_calls
    \/ net'.request_calls > net.request_calls

\* C39: a send started 30 s or more after the recorded close, or with no
\* close recorded, is not short-circuited and reaches the network; and a
\* session in cooldown, whose caller keeps invoking send while the clock
\* keeps advancing, sees a send get past the guard and reach the network
\* (as far as the clock and the sends of the model go: the cooldown ends by
\* MaxTime and fewer than MaxSends sends got past the guard so far).
C39_CooldownEnds ==
    /\ [][ ( /\ last'.op = "send"
             /\ \/ session.last_connection_close = None
                \/ now - session.last_connection_close >= 30 )
           => ( /\ last'.ret.status # "client/connectionClosed"
                /\ session'.total_requests_sent = session.total_requests_sent + 1
                /\ ReachedNetwork ) ]_vars
    /\ \A n \in 0..(MaxSends - 1) :
          ( /\ CooldownActive(session, now)
            /\ session.last_connection_close + 30 <= MaxTime
            /\ session.total_requests_sent = n )
          ~> ( /\ session.total_requests_sent = n + 1
               /\ last.op = "send"
               /\ last.nb # NoNetwork
               /\ net.connect_calls + net.request_calls > 0 )

\* a send started exactly 30 s after the close recorded by a failed send
\* got past the guard and opened a second connection
C39_Witness ==
    /\ last.op = "send"
    /\ last.ret.status # "client/connectionClosed"
    /\ session.total_requests_sent = 2
    /\ session.total_requests_failed >= 1
    /\ last.current_time = 30
    /\ net.connect_calls = 2

(***************************************************************************)
(* Properties of the pace of the network attempts, checked under           *)
(* AttemptSpec.                                                            *)
(***************************************************************************)
\* C40: when the last send or ping that got past the cooldown guard did not
\* return success, the next send or ping that gets past the guard starts at
\* least 30 s after that one started, whatever sends, pings and closes are
\* called and whatever the clock does in between; a send or ping started
\* earlier reaches no connection.
C40_OneAttemptPerWindow ==
    [][ ( /\ last'.op \in {"send", "ping"}
          /\ sends.failed_start # None )
        => IF now - sends.failed_start >= 30
           THEN last'.ret.status # "client/connectionClosed"
           ELSE /\ last'.ret.status = "client/connectionClosed"
                /\ net' = net
                /\ session'.total_requests_sent = session.total_requests_sent ]_vars

\* a ping got past the guard 30 s after the start of a send that failed and
\* that had itself taken 30 s
C40_Witness ==
    /\ last.op = "ping"
    /\ last.ret.status # "client/connectionClosed"
    /\ last.current_time = 30
    /\ session.total_requests_sent = 2
    /\ session.total_requests_failed >= 1
    /\ net.connect_calls = 2

=============================================================================
